---------------------------- MODULE Spec2Model ----------------------------
(***************************************************************************)
(* A model of the SmartFrame scraper: the job store (server/storage.ts),   *)
(* the scrape job (SmartFrameScraper.scrape), listing discovery            *)
(* (autoScroll, collectPageImageLinks), per-item extraction                *)
(* (extractImageData, parseMetadata) and the text sanitizer                *)
(* (cleanTextHelper).                                                      *)
(*                                                                         *)
(* A JavaScript string is a sequence of one-character strings.  null and   *)
(* undefined are the one-element sequence NULL, which is no string.        *)
(***************************************************************************)
EXTENDS Integers, Sequences, FiniteSets, TLC

(***************************************************************************)
(* Strings                                                                 *)
(***************************************************************************)
NULL == <<"<null>">>

UpperCase == <<"A","B","C","D","E","F","G","H","I","J","K","L","M",
               "N","O","P","Q","R","S","T","U","V","W","X","Y","Z">>

LowerCase == <<"a","b","c","d","e","f","g","h","i","j","k","l","m",
               "n","o","p","q","r","s","t","u","v","w","x","y","z">>

\* String.prototype.toLowerCase, one character
toLowerChar(c) ==
    IF \E i \in 1..Len(UpperCase) : UpperCase[i] = c
    THEN LowerCase[CHOOSE i \in 1..Len(UpperCase) : UpperCase[i] = c]
    ELSE c

\* String.prototype.toLowerCase
toLowerCase(s) == [i \in 1..Len(s) |-> toLowerChar(s[i])]

\* String.prototype.includes
includes(s, p) ==
    \E i \in 0..(Len(s) - Len(p)) : SubSeq(s, i + 1, i + Len(p)) = p

\* the first index >= from at which s holds a character of set cs, 0 if none
IndexOfAny(s, cs, from) ==
    IF \E i \in from..Len(s) : s[i] \in cs
    THEN CHOOSE i \in from..Len(s) :
             s[i] \in cs /\ \A j \in from..(i - 1) : s[j] \notin cs
    ELSE 0

\* the last index at which s holds character c, 0 if none
LastIndexOf(s, c) ==
    IF \E i \in 1..Len(s) : s[i] = c
    THEN CHOOSE i \in 1..Len(s) : s[i] = c /\ \A j \in (i + 1)..Len(s) : s[j] # c
    ELSE 0

\* what \s matches, among the characters the model uses
WhiteSpace == {" ", "\n", "\t"}

\* String.prototype.trim
trim(s) ==
    IF \A i \in 1..Len(s) : s[i] \in WhiteSpace
    THEN <<>>
    ELSE LET a == CHOOSE i \in 1..Len(s) :
                      s[i] \notin WhiteSpace /\ \A j \in 1..(i - 1) : s[j] \in WhiteSpace
             b == CHOOSE i \in 1..Len(s) :
                      s[i] \notin WhiteSpace /\ \A j \in (i + 1)..Len(s) : s[j] \in WhiteSpace
         IN  SubSeq(s, a, b)

\* the sequences over S of length at most n
SeqsUpTo(S, n) == UNION {[1..k -> S] : k \in 0..n}

\* n times the character c
Repeat(c, n) == [i \in 1..n |-> c]

\* a value a JavaScript condition takes as true (strings and null only)
Truthy(v) == v # NULL /\ v # <<>>

\* a || b
Or(a, b) == IF Truthy(a) THEN a ELSE b

(***************************************************************************)
(* The sanitizer: cleanTextHelper                                          *)
(***************************************************************************)
MaxTextLen == 200

MaxLines == 3

\* the keyword list with its last entry lost
InjectionKeywords_NoOnload ==
    { <<"s","c","r","i","p","t">>,
      <<"i","f","r","a","m","e">>,
      <<"o","n","c","l","i","c","k">>,
      <<"o","n","e","r","r","o","r">> }

InjectionKeywords ==
    { <<"s","c","r","i","p","t">>,
      <<"i","f","r","a","m","e">>,
      <<"o","n","c","l","i","c","k">>,
      <<"o","n","e","r","r","o","r">>,
      <<"o","n","l","o","a","d">> }

UiPhrases ==
    { <<"a","d","d"," ","t","o"," ","b","o","a","r","d">>,
      <<"c","o","p","y"," ","l","i","n","k">>,
      <<"c","o","p","y"," ","e","m","b","e","d">>,
      <<"g","o","o","g","l","e"," ","t","a","g"," ","m","a","n","a","g","e","r">>,
      <<"s","m","a","r","t","f","r","a","m","e"," ","c","o","n","t","e","n","t"," ",
        "p","a","r","t","n","e","r">> }

\* cleaned.replace(/<[^>]*>/g, '')
RECURSIVE StripCompleteTags(_)
StripCompleteTags(s) ==
    LET i == IndexOfAny(s, {"<"}, 1)
        j == IF i = 0 THEN 0 ELSE IndexOfAny(s, {">"}, i + 1)
    IN  IF j = 0
        THEN s
        ELSE SubSeq(s, 1, i - 1) \o StripCompleteTags(SubSeq(s, j + 1, Len(s)))

\* cleaned.replace(/^<[^>]*/, '')
StripLeadingTag(s) ==
    IF Len(s) > 0 /\ s[1] = "<"
    THEN LET j == IndexOfAny(s, {">"}, 2)
         IN  IF j = 0 THEN <<>> ELSE SubSeq(s, j, Len(s))
    ELSE s

\* cleaned.replace(/[^<]*>$/, '')
StripTrailingTag(s) ==
    IF Len(s) > 0 /\ s[Len(s)] = ">"
    THEN SubSeq(s, 1, LastIndexOf(s, "<"))
    ELSE s

\* a last step that leaves the angle brackets in
StripAngles_Kept(s) == s

\* cleaned.replace(/[<>]/g, '')
StripAngles(s) == SelectSeq(s, LAMBDA c : c \notin {"<", ">"})

\* the value of `cleaned` after the trim
CleanedText(text) ==
    trim(StripAngles(StripTrailingTag(StripLeadingTag(StripCompleteTags(text)))))

\* cleaned.split('\n').length
SplitLines(s) == Cardinality({i \in 1..Len(s) : s[i] = "\n"}) + 1

cleanTextHelper(text) ==
    IF ~Truthy(text) THEN NULL
    ELSE LET lowerText == toLowerCase(text)
             cleaned == CleanedText(text)
         IN  IF \E k \in InjectionKeywords : includes(lowerText, k) THEN NULL
             ELSE IF \E p \in UiPhrases : includes(lowerText, p) THEN NULL
             ELSE IF Len(cleaned) > MaxTextLen THEN NULL
             ELSE IF SplitLines(cleaned) > MaxLines THEN NULL
             ELSE IF cleaned = <<>> THEN NULL
             ELSE cleaned

(***************************************************************************)
(* Metadata records and the cached network payload                         *)
(***************************************************************************)
Fields == {"photographer", "imageSize", "fileSize", "country", "city", "date", "matchEvent"}

\* parseMetadata's initial result
EmptyMeta == [f \in Fields |-> NULL]

\* the keys extractImageData reads from a cached payload; locCountry and
\* locCity stand for location.country and location.city.  A cache entry is a
\* record over these keys and `has`, the answer of metadataCache.has(imageId)
CacheKeys ==
    {"photographer", "credit", "author", "dimensions", "size", "imageSize",
     "fileSize", "file_size", "country", "locCountry", "city", "locCity",
     "date", "dateCreated", "created_at", "title", "event", "description"}

\* a || b || c || null
Or3(a, b, c) == Or(Or(Or(a, b), c), NULL)

\* the Tier 0 mapping of a cached payload onto the image's fields
MapCached(d) ==
    [f \in Fields |->
        CASE f = "photographer" -> Or3(d.photographer, d.credit, d.author)
          [] f = "imageSize"    -> Or3(d.dimensions, d.size, d.imageSize)
          [] f = "fileSize"     -> Or(Or(d.fileSize, d.file_size), NULL)
          [] f = "country"      -> Or(Or(d.country, d.locCountry), NULL)
          [] f = "city"         -> Or(Or(d.city, d.locCity), NULL)
          [] f = "date"         -> Or3(d.date, d.dateCreated, d.created_at)
          [] f = "matchEvent"   -> Or3(d.title, d.event, d.description)]

(***************************************************************************)
(* parseMetadata                                                           *)
(***************************************************************************)
\* the switch on the lower-cased label: the field a label fills, "" for none
LabelField(label) ==
    CASE label \in { <<"p","h","o","t","o","g","r","a","p","h","e","r">>,
                     <<"c","r","e","d","i","t">> } -> "photographer"
      [] label \in { <<"i","m","a","g","e"," ","s","i","z","e">>,
                     <<"s","i","z","e">>,
                     <<"d","i","m","e","n","s","i","o","n","s">> } -> "imageSize"
      [] label = <<"f","i","l","e"," ","s","i","z","e">> -> "fileSize"
      [] label = <<"c","o","u","n","t","r","y">> -> "country"
      [] label \in { <<"c","i","t","y">>,
                     <<"l","o","c","a","t","i","o","n">> } -> "city"
      [] label \in { <<"d","a","t","e">>,
                     <<"d","a","t","e"," ","t","a","k","e","n">> } -> "date"
      [] label \in { <<"e","v","e","n","t">>, <<"t","i","t","l","e">>,
                     <<"c","a","p","t","i","o","n">>,
                     <<"d","e","s","c","r","i","p","t","i","o","n">> } -> "matchEvent"
      [] OTHER -> ""

\* result.f = value, whatever result.f held
FillField_Overwrite(result, f, value) == [result EXCEPT ![f] = value]

\* result.f = result.f || value
FillField(result, f, value) == [result EXCEPT ![f] = Or(result[f], value)]

\* the loop over rawData.labelValues, from entry i on
RECURSIVE LabelLoop(_, _, _)
LabelLoop(result, labelValues, i) ==
    IF i > Len(labelValues) THEN result
    ELSE LET label == toLowerCase(labelValues[i].label)
             value == cleanTextHelper(labelValues[i].value)
             f     == LabelField(label)
         IN  IF ~Truthy(value) \/ f = ""
             THEN LabelLoop(result, labelValues, i + 1)
             ELSE LabelLoop(FillField(result, f, value), labelValues, i + 1)

\* Tier 1: the label-value pairs, then title and caption as the event's fallback
ParseTier1(result, rawData) ==
    LET title   == cleanTextHelper(rawData.title)
        caption == cleanTextHelper(rawData.caption)
        r1      == LabelLoop(result, rawData.labelValues, 1)
    IN  [r1 EXCEPT !["matchEvent"] = Or(Or(r1["matchEvent"], title), caption)]

\* the labels of the caption's sub-lines, lower-cased, with their colon
CreditLabels == { <<"c","r","e","d","i","t",":">>,
                  <<"p","h","o","t","o","g","r","a","p","h","e","r",":">> }

WhereLabels == { <<"w","h","e","r","e",":">> }

WhenLabels == { <<"w","h","e","n",":">> }

FeaturingLabels == { <<"f","e","a","t","u","r","i","n","g",":">> }

\* the end of the run of characters outside `stop` that starts at k
RunEnd(s, k, stop) ==
    LET e == IndexOfAny(s, stop, k) IN IF e = 0 THEN Len(s) ELSE e - 1

\* /label\s*([^\/\n]+)/ tried with the label ending just before q: \s* takes
\* all the white space it can and gives it back one character at a time until
\* the group has a first character; 0 when the group cannot start
GroupStart(s, q) ==
    LET e  == IF \E i \in q..Len(s) : s[i] \notin WhiteSpace
              THEN CHOOSE i \in q..Len(s) :
                       s[i] \notin WhiteSpace /\ \A j \in q..(i - 1) : s[j] \in WhiteSpace
              ELSE Len(s) + 1
        ks == {k \in q..e : k <= Len(s) /\ s[k] \notin {"/", "\n"}}
    IN  IF ks = {} THEN 0 ELSE CHOOSE k \in ks : \A j \in ks : j <= k

\* the positions at which one of the labels matches (case-insensitively) and
\* the group after it can start
LabelMatches(s, labels) ==
    {p \in 1..Len(s) :
        \E lab \in labels :
            /\ p + Len(lab) - 1 <= Len(s)
            /\ toLowerCase(SubSeq(s, p, p + Len(lab) - 1)) = lab
            /\ GroupStart(s, p + Len(lab)) # 0}

\* caption.match(/(?:label):\s*([^\/\n]+)/i): the captured group of the
\* leftmost match, NULL when nothing matches
CaptionMatch(s, labels) ==
    LET ps == LabelMatches(s, labels)
    IN  IF ps = {} THEN NULL
        ELSE LET p   == CHOOSE x \in ps : \A y \in ps : x <= y
                 lab == CHOOSE l \in labels :
                            /\ p + Len(l) - 1 <= Len(s)
                            /\ toLowerCase(SubSeq(s, p, p + Len(l) - 1)) = l
                 k   == GroupStart(s, p + Len(lab))
             IN  SubSeq(s, k, RunEnd(s, k, {"/", "\n"}))

\* location.split(',').map(p => p.trim()), entries 0 and 1
SplitPart0(s) == trim(SubSeq(s, 1, RunEnd(s, 1, {","})))

SplitPart1(s) ==
    LET c == IndexOfAny(s, {","}, 1)
    IN  trim(SubSeq(s, c + 1, RunEnd(s, c + 1, {","})))

\* the location branch of the caption fallback
Tier2Location(result, caption) ==
    IF Truthy(result["city"]) \/ Truthy(result["country"]) THEN result
    ELSE LET whereMatch == CaptionMatch(caption, WhereLabels)
             location   == cleanTextHelper(whereMatch)
         IN  IF whereMatch = NULL THEN result
             ELSE IF Truthy(location) /\ includes(location, <<",">>)
             THEN [result EXCEPT !["city"]    = cleanTextHelper(SplitPart0(location)),
                                 !["country"] = cleanTextHelper(SplitPart1(location))]
             ELSE [result EXCEPT !["city"] = location]

\* one labelled sub-line of the caption fallback: field f from the labels' line
Tier2Line(result, caption, f, labels) ==
    IF Truthy(result[f]) THEN result
    ELSE LET m == CaptionMatch(caption, labels)
         IN  IF m = NULL THEN result
             ELSE [result EXCEPT ![f] = cleanTextHelper(m)]

\* Tier 2: the regex fallback over the sanitized caption
ParseTier2(result, rawData) ==
    LET caption == cleanTextHelper(rawData.caption)
    IN  IF ~Truthy(caption) THEN result
        ELSE LET r1 == Tier2Line(result, caption, "photographer", CreditLabels)
                 r2 == Tier2Location(r1, caption)
                 r3 == Tier2Line(r2, caption, "date", WhenLabels)
             IN  Tier2Line(r3, caption, "matchEvent", FeaturingLabels)

\* Tier 3: the fields of __NEXT_DATA__
ParseTier3(result, rawData) ==
    LET n == rawData.nextData
    IN  IF ~n.present THEN result
        ELSE LET r1 == FillField(result, "photographer", cleanTextHelper(n.photographer))
                 r2 == FillField(r1, "imageSize", cleanTextHelper(n.dimensions))
                 r3 == FillField(r2, "fileSize", cleanTextHelper(n.fileSize))
                 r4 == FillField(r3, "country", cleanTextHelper(n.country))
                 r5 == FillField(r4, "city", cleanTextHelper(n.city))
                 r6 == FillField(r5, "date", cleanTextHelper(n.date))
             IN  FillField(r6, "matchEvent",
                           cleanTextHelper(Or(Or(n.eventTitle, n.title), n.caption)))

\* a JSON value that is truthy and not a string, such as the number 42
NotAString == <<"<number>">>

\* whether Tier 3 raises: cleanTextHelper is handed a value without
\* toLowerCase, which happens for a field nothing has filled yet
Tier3Throws(result, rawData) ==
    LET n == rawData.nextData
    IN  /\ n.present
        /\ \/ ~Truthy(result["photographer"]) /\ n.photographer = NotAString
           \/ ~Truthy(result["imageSize"]) /\ n.dimensions = NotAString
           \/ ~Truthy(result["fileSize"]) /\ n.fileSize = NotAString
           \/ ~Truthy(result["country"]) /\ n.country = NotAString
           \/ ~Truthy(result["city"]) /\ n.city = NotAString
           \/ ~Truthy(result["date"]) /\ n.date = NotAString
           \/ /\ ~Truthy(result["matchEvent"])
              /\ Or(Or(n.eventTitle, n.title), n.caption) = NotAString

\* parseMetadata where it returns
parseMetadata(rawData) ==
    ParseTier3(ParseTier2(ParseTier1(EmptyMeta, rawData), rawData), rawData)

\* the merge with its operands exchanged: image.f = metadata.f || image.f
MergeMetadata_MetadataFirst(image, metadata) ==
    [k \in DOMAIN image |->
        IF k \in Fields THEN Or(metadata[k], image[k]) ELSE image[k]]

\* image.f = image.f || (metadata.f ?? null), for the seven fields
MergeMetadata(image, metadata) ==
    [k \in DOMAIN image |->
        IF k \in Fields THEN Or(image[k], metadata[k]) ELSE image[k]]

(***************************************************************************)
(* Inputs of the sanitizer: a fragment between two short pads              *)
(***************************************************************************)
MaxPad == 1

PadAlphabet == {"a", " ", "<", ">", "\n"}

Pads == SeqsUpTo(PadAlphabet, MaxPad)

Fragments ==
    { <<>>,
      <<"J","a","n","e"," ","D","o","e">>,
      <<"<","s","c","r","i","p","t",">","a","l","e","r","t","(","1",")",
        "<","/","s","c","r","i","p","t",">">>,
      <<"C","o","p","y"," ","L","i","n","k">>,
      <<"I","F","r","a","m","e">>,
      <<"o","n","c","l","i","c","k">>,
      <<"o","n","E","R","R","O","R">>,
      <<"O","n","L","o","a","d">>,
      <<"A","d","d"," ","T","o"," ","B","o","a","r","d">>,
      <<"c","o","p","y"," ","e","m","b","e","d">>,
      <<"s","c","r","<","b",">","i","p","t">>,
      <<"<","b",">","A","<","/","b",">">>,
      <<"a","\n","b","\n","c">>,
      <<"a","\n","b","\n","c","\n","d">>,
      Repeat("a", MaxTextLen - 1),
      Repeat("a", MaxTextLen),
      Repeat("a", MaxTextLen + 50) }

CleanInputs == {NULL} \cup {pre \o frag \o post : pre \in Pads, frag \in Fragments, post \in Pads}

(***************************************************************************)
(* Inputs of one extraction                                                *)
(***************************************************************************)
TagA == <<"<","b",">","A","<","/","b",">">>

NoEntry == [k \in CacheKeys \cup {"has"} |-> IF k = "has" THEN FALSE ELSE NULL]

EmptyEntry == [NoEntry EXCEPT !["has"] = TRUE]

CacheEntries ==
    { NoEntry,
      EmptyEntry,
      [EmptyEntry EXCEPT !["photographer"] = <<"A">>],
      [EmptyEntry EXCEPT !["photographer"] = <<>>, !["credit"] = <<"A">>, !["author"] = <<"B">>],
      [EmptyEntry EXCEPT !["photographer"] = TagA],
      [EmptyEntry EXCEPT !["city"] = <<"A">>],
      [EmptyEntry EXCEPT !["locCity"] = <<"A">>, !["locCountry"] = <<" ","B">>],
      [EmptyEntry EXCEPT !["country"] = <<"B">>, !["created_at"] = <<"A">>],
      [EmptyEntry EXCEPT !["event"] = <<"A">>, !["size"] = <<"A">>, !["file_size"] = <<"A">>] }

NoNextData ==
    [present |-> FALSE, photographer |-> NULL, dimensions |-> NULL, fileSize |-> NULL,
     country |-> NULL, city |-> NULL, date |-> NULL, eventTitle |-> NULL,
     title |-> NULL, caption |-> NULL]

NextDatas ==
    { NoNextData,
      [NoNextData EXCEPT !.present = TRUE, !.photographer = <<"D">>, !.country = <<"D">>,
                         !.city = <<"D">>, !.date = <<"D">>, !.title = <<"D">>,
                         !.dimensions = <<"D">>, !.fileSize = <<"D">>],
      [NoNextData EXCEPT !.present = TRUE, !.fileSize = NotAString] }

\* "Where: Paris, France / When: 2021-05-01 / Credit: J. Doe"
ParisCaption ==
    <<"W","h","e","r","e",":"," ","P","a","r","i","s",","," ","F","r","a","n","c","e",
      " ","/"," ","W","h","e","n",":"," ","2","0","2","1","-","0","5","-","0","1",
      " ","/"," ","C","r","e","d","i","t",":"," ","J","."," ","D","o","e">>

\* "Credit:" with nothing after it on its line, and a location line below
BlankCreditCaption == <<"C","r","e","d","i","t",":","\n","W","h","e","r","e",":"," ","C">>

Captions ==
    { NULL,
      ParisCaption,
      BlankCreditCaption,
      <<"W","h","e","r","e",":"," ","B",","," ","C",","," ","D">>,
      <<"F","e","a","t","u","r","i","n","g",":"," ","X">>,
      <<"C","r","e","d","i","t",":"," ","B","\n","W","h","e","r","e",":"," ","C">> }

LabelValueLists ==
    { <<>>,
      << [label |-> <<"C","r","e","d","i","t">>, value |-> <<"B">>] >>,
      << [label |-> <<"C","i","t","y">>, value |-> <<" ","B">>] >>,
      << [label |-> <<"C","o","u","n","t","r","y">>, value |-> <<"B">>],
         [label |-> <<"D","a","t","e">>, value |-> <<"B">>],
         [label |-> <<"C","r","e","d","i","t">>, value |-> <<"<","s","c","r","i","p","t",">">>],
         [label |-> <<"P","h","o","t","o","g","r","a","p","h","e","r">>, value |-> TagA],
         [label |-> <<"E","v","e","n","t">>, value |-> <<"B">>] >> }

RawDatas ==
    [title : {NULL, <<"T">>}, caption : Captions,
     labelValues : LabelValueLists, nextData : NextDatas]

\* an item reference: collectPageImageLinks' { url, imageId, hash }
ItemUrl(hash, imageId) == <<"url", hash, imageId>>

ItemRef(hash, imageId) == [url |-> ItemUrl(hash, imageId), imageId |-> imageId, hash |-> hash]

ThumbnailHints == {NULL, <<"thumb">>}

(***************************************************************************)
(* The job store: MemStorage                                               *)
(***************************************************************************)
\* createScrapeJob's job
NewJob(id, url, config) ==
    [id |-> id, url |-> url, status |-> "pending", progress |-> 0, totalImages |-> 0,
     scrapedImages |-> 0, images |-> <<>>, error |-> "null", startedAt |-> "t0",
     completedAt |-> "null", config |-> config]

\* a spread that also stamps the record with the time of the update
Spread_Restamped(job, updates) ==
    [k \in DOMAIN job |-> IF k = "startedAt" THEN "t1"
                          ELSE IF k \in DOMAIN updates THEN updates[k] ELSE job[k]]

\* { ...job, ...updates }
Spread(job, updates) ==
    [k \in DOMAIN job |-> IF k \in DOMAIN updates THEN updates[k] ELSE job[k]]

\* an update that is spread into every record of the store
updateScrapeJob_EveryRecord(store, id, updates) ==
    [k \in DOMAIN store |-> Spread(store[k], updates)]

\* the store after updateScrapeJob(id, updates)
updateScrapeJob(store, id, updates) ==
    IF id \notin DOMAIN store THEN store
    ELSE [store EXCEPT ![id] = Spread(@, updates)]

(***************************************************************************)
(* The listing page as the scraper observes it                             *)
(***************************************************************************)
AllJobs == {"j1", "j2"}

ImageIds == {"i1", "i2", "i3", "i4", "i5"}

Urls == {"u1", "u2"}

MaxImgs == 2

MaxHeight == 2

MaxCap == 2

\* the documents collectPageImageLinks may meet: smartframe-embed elements
\* (image-id, customer-id), anchors to /search/image/<hash>/<id>, and
\* containers with data-image-id and data-customer-id or data-hash
NoDom == [embeds |-> <<>>, anchors |-> <<>>, containers |-> <<>>]

Doms ==
    { NoDom,
      [NoDom EXCEPT !.embeds = << [imageId |-> "i1", customerId |-> "h1"],
                                  [imageId |-> "i1", customerId |-> "h2"] >>,
                    !.anchors = << [imageId |-> "i1", hash |-> "h2"] >>],
      [NoDom EXCEPT !.embeds = << [imageId |-> "i2", customerId |-> ""] >>,
                    !.anchors = << [imageId |-> "i2", hash |-> "h1"] >>,
                    !.containers = << [imageId |-> "i1", hash |-> "h1"],
                                      [imageId |-> "i2", hash |-> "h2"] >>] }

\* a tab: whether it is open, and the document it shows
ClosedTab == [open |-> FALSE, url |-> "about:blank"]

\* links.some(l => l.imageId === id)
HasImageId(links, id) == \E n \in 1..Len(links) : links[n].imageId = id

\* Method 1: every smartframe-embed with both attributes
RECURSIVE CollectEmbeds(_, _)
CollectEmbeds(links, embeds) ==
    IF embeds = <<>> THEN links
    ELSE LET e == Head(embeds)
         IN  IF e.imageId # "" /\ e.customerId # ""
             THEN CollectEmbeds(Append(links, ItemRef(e.customerId, e.imageId)), Tail(embeds))
             ELSE CollectEmbeds(links, Tail(embeds))

\* Methods 2 and 3: an anchor or a container whose imageId is not yet listed
RECURSIVE CollectUnlisted(_, _)
CollectUnlisted(links, elements) ==
    IF elements = <<>> THEN links
    ELSE LET e == Head(elements)
         IN  IF e.imageId # "" /\ e.hash # "" /\ ~HasImageId(links, e.imageId)
             THEN CollectUnlisted(Append(links, ItemRef(e.hash, e.imageId)), Tail(elements))
             ELSE CollectUnlisted(links, Tail(elements))

collectPageImageLinks(dom) ==
    CollectUnlisted(CollectUnlisted(CollectEmbeds(<<>>, dom.embeds), dom.anchors), dom.containers)

\* the imageIds of a list of links
LinkIds(links) == {links[n].imageId : n \in 1..Len(links)}

\* Map.prototype.set on a map kept as the sequence of its values in insertion
\* order, with every link appended (the map's key forgotten)
MapSet_Append(map, link) == Append(map, link)

\* Map.prototype.set, the map kept as the sequence of its values in insertion
\* order: a known imageId keeps its place and takes the new value
MapSet(map, link) ==
    IF HasImageId(map, link.imageId)
    THEN [n \in 1..Len(map) |-> IF map[n].imageId = link.imageId THEN link ELSE map[n]]
    ELSE Append(map, link)

\* for (const link of links) discoveredLinks.set(link.imageId, link)
RECURSIVE SetAll(_, _)
SetAll(map, links) ==
    IF links = <<>> THEN map ELSE SetAll(MapSet(map, Head(links)), Tail(links))

\* Math.round(num / den * 100), num >= 0 and den > 0
RoundPercent(num, den) == (200 * num + den) \div (2 * den)


(***************************************************************************)
(* State                                                                   *)
(***************************************************************************)
VARIABLES
    cleanIn,    \* the argument of the cleanTextHelper call in progress
    cleanOut,   \* what the call returned, PENDING before it returns
    exPc,       \* where one extractImageData call stands
    exRef,      \* its url, imageId and hash
    exDetails,  \* its extractDetails
    exHint,     \* its thumbnailUrl
    exCache,    \* the metadataCache entry of its imageId
    exRaw,      \* what page.evaluate returns on its detail page
    exAttempt,  \* the navigation attempt
    exImage,    \* its `image`
    exResult,   \* parseMetadata's `result`
    exCaught    \* whether its catch block ran

PENDING == <<"<pending>">>

cleanVars == <<cleanIn, cleanOut>>

exVars == <<exPc, exRef, exDetails, exHint, exCache, exRaw, exAttempt, exImage,
            exResult, exCaught>>

VARIABLES
    requests,       \* the jobs a client has yet to ask for
    scrapeJobs,     \* MemStorage.scrapeJobs
    browser,        \* SmartFrameScraper.browser: 0 for null, else the instance
    launched,       \* how many browser instances the process has launched
    metadataCache,  \* metadataCache, imageId -> entry
    tabs,           \* each job's tab
    loc             \* each scrape call's locals and position

jobVars == <<requests, scrapeJobs, browser, launched, metadataCache, tabs, loc>>

vars == <<cleanVars, exVars, jobVars>>

(***************************************************************************)
(* cleanTextHelper, one call                                               *)
(***************************************************************************)
CleanIdle == cleanIn = NULL /\ cleanOut = PENDING

CleanText ==
    /\ cleanOut = PENDING
    /\ cleanOut' = cleanTextHelper(cleanIn)
    /\ UNCHANGED cleanIn
    /\ UNCHANGED exVars
    /\ UNCHANGED jobVars

(***************************************************************************)
(* extractImageData, one call                                              *)
(***************************************************************************)
DetailAttempts == 2

\* an `image` that starts without the reference's url
NewImage_NoUrl(ref, thumbnailUrl) ==
    [k \in Fields \cup {"imageId", "hash", "url", "copyLink", "smartframeId", "thumbnailUrl"} |->
        CASE k \in {"imageId", "smartframeId"} -> ref.imageId
          [] k = "hash" -> ref.hash
          [] k = "thumbnailUrl" -> Or(thumbnailUrl, NULL)
          [] OTHER -> NULL]

\* the `image` extractImageData starts from
NewImage(ref, thumbnailUrl) ==
    [k \in Fields \cup {"imageId", "hash", "url", "copyLink", "smartframeId", "thumbnailUrl"} |->
        CASE k \in {"imageId", "smartframeId"} -> ref.imageId
          [] k = "hash" -> ref.hash
          [] k \in {"url", "copyLink"} -> ref.url
          [] k = "thumbnailUrl" -> Or(thumbnailUrl, NULL)
          [] OTHER -> NULL]

\* a cache lookup whose values are not copied onto the image
ApplyCached_Nothing(image, entry) == image

\* image.f = <the cached value>, for the seven fields
ApplyCached(image, entry) ==
    [k \in DOMAIN image |-> IF k \in Fields THEN MapCached(entry)[k] ELSE image[k]]

\* a Tier 0 that never reads the cache
Tier0Image_NoCache(ref, thumbnailUrl, entry) == NewImage(ref, thumbnailUrl)

\* Tier 0: the image after the cache lookup
Tier0Image(ref, thumbnailUrl, entry) ==
    IF entry.has THEN ApplyCached(NewImage(ref, thumbnailUrl), entry)
    ELSE NewImage(ref, thumbnailUrl)

ExIdle ==
    /\ exPc = "idle"
    /\ exRef = ItemRef("h1", "i1")
    /\ exDetails = FALSE
    /\ exHint = NULL
    /\ exCache = NoEntry
    /\ exRaw = [title |-> NULL, caption |-> NULL, labelValues |-> <<>>, nextData |-> NoNextData]
    /\ exAttempt = 1
    /\ exImage = NewImage(ItemRef("h1", "i1"), NULL)
    /\ exResult = EmptyMeta
    /\ exCaught = FALSE

\* the image is built and the cache is read
ExStart ==
    /\ exPc = "start"
    /\ exImage' = Tier0Image(exRef, exHint, exCache)
    /\ exPc' = IF exDetails THEN "goto" ELSE "returned"
    /\ UNCHANGED <<exRef, exDetails, exHint, exCache, exRaw, exAttempt, exResult, exCaught>>
    /\ UNCHANGED cleanVars
    /\ UNCHANGED jobVars

\* one page.goto of the detail page
ExGoto ==
    /\ exPc = "goto"
    /\ \E ok \in BOOLEAN :
          IF ok THEN exPc' = "evaluate" /\ UNCHANGED exAttempt
          ELSE IF exAttempt = DetailAttempts
               THEN exPc' = "returnedPartial" /\ UNCHANGED exAttempt
               ELSE exPc' = "goto" /\ exAttempt' = exAttempt + 1
    /\ UNCHANGED <<exRef, exDetails, exHint, exCache, exRaw, exImage, exResult, exCaught>>
    /\ UNCHANGED cleanVars
    /\ UNCHANGED jobVars

\* waitForSelector and page.evaluate: rawData arrives, or the page throws
ExEvaluate ==
    /\ exPc = "evaluate"
    /\ \E ok \in BOOLEAN :
          IF ok THEN exPc' = "tier1" /\ UNCHANGED exCaught
          ELSE exPc' = "returned" /\ exCaught' = TRUE
    /\ UNCHANGED <<exRef, exDetails, exHint, exCache, exRaw, exAttempt, exImage, exResult>>
    /\ UNCHANGED cleanVars
    /\ UNCHANGED jobVars

\* parseMetadata, the label-value pairs
ExTier1 ==
    /\ exPc = "tier1"
    /\ exResult' = ParseTier1(EmptyMeta, exRaw)
    /\ exPc' = "tier2"
    /\ UNCHANGED <<exRef, exDetails, exHint, exCache, exRaw, exAttempt, exImage, exCaught>>
    /\ UNCHANGED cleanVars
    /\ UNCHANGED jobVars

\* parseMetadata, the caption fallback
ExTier2 ==
    /\ exPc = "tier2"
    /\ exResult' = ParseTier2(exResult, exRaw)
    /\ exPc' = "tier3"
    /\ UNCHANGED <<exRef, exDetails, exHint, exCache, exRaw, exAttempt, exImage, exCaught>>
    /\ UNCHANGED cleanVars
    /\ UNCHANGED jobVars

\* parseMetadata, __NEXT_DATA__: the fields are filled, or cleanTextHelper
\* raises and the catch of extractImageData returns the image as it is
ExTier3 ==
    /\ exPc = "tier3"
    /\ IF Tier3Throws(exResult, exRaw)
       THEN exPc' = "returned" /\ exCaught' = TRUE /\ UNCHANGED exResult
       ELSE exPc' = "merge" /\ exResult' = ParseTier3(exResult, exRaw) /\ UNCHANGED exCaught
    /\ UNCHANGED <<exRef, exDetails, exHint, exCache, exRaw, exAttempt, exImage>>
    /\ UNCHANGED cleanVars
    /\ UNCHANGED jobVars

\* the merge into the image, and the return
ExMerge ==
    /\ exPc = "merge"
    /\ exImage' = MergeMetadata(exImage, exResult)
    /\ exPc' = "returned"
    /\ UNCHANGED <<exRef, exDetails, exHint, exCache, exRaw, exAttempt, exResult, exCaught>>
    /\ UNCHANGED cleanVars
    /\ UNCHANGED jobVars

(***************************************************************************)
(* One scrape job: routes.ts, SmartFrameScraper.scrape and autoScroll      *)
(***************************************************************************)
maxAttempts == 3

patienceRounds == 5

ListingUrl == "u1"

\* a second listing: five smartframe-embed elements without an img child,
\* whose detail pages all answer 404
FiveItemListing == "u5"

FiveItemDom ==
    [NoDom EXCEPT !.embeds = [n \in 1..5 |->
        [imageId |-> <<"i1", "i2", "i3", "i4", "i5">>[n], customerId |-> "h1"]]]

\* two listings that both show item i1, the second one also item i2
OverlapListings == {"u6", "u7"}

OverlapDom(url) ==
    IF url = "u6"
    THEN [NoDom EXCEPT !.embeds = << [imageId |-> "i1", customerId |-> "h1"] >>]
    ELSE [NoDom EXCEPT !.embeds = << [imageId |-> "i1", customerId |-> "h1"],
                                     [imageId |-> "i2", customerId |-> "h1"] >>]

\* a listing whose page never changes: one URL, one image count, one height
StaticListing == "u8"

\* a listing that renders a window of its items: one item is in the document
\* at a time, i1 or i2
VirtualListing == "u9"

VirtualDoms ==
    { [NoDom EXCEPT !.embeds = << [imageId |-> "i1", customerId |-> "h1"] >>],
      [NoDom EXCEPT !.embeds = << [imageId |-> "i2", customerId |-> "h1"] >>] }

\* a listing whose page inserts and removes controls while it is scanned
ShiftingListing == "u10"

\* the documents the pages of a listing may show
ListingDoms(url) ==
    IF url = FiveItemListing THEN {FiveItemDom}
    ELSE IF url = VirtualListing THEN VirtualDoms
    ELSE IF url \in OverlapListings THEN {OverlapDom(url)}
    ELSE Doms

\* scrapeConfigSchema, maxImages bounded
Configs == [maxImages : 0..MaxCap, extractDetails : BOOLEAN, autoScroll : BOOLEAN]

\* the payloads the response interceptor stores while a job runs
JobCacheEntries == { [EmptyEntry EXCEPT !["photographer"] = <<"A">>] }

\* what page.evaluate returns on the detail pages of a job
JobRawDatas ==
    { [title |-> NULL, caption |-> NULL, labelValues |-> <<>>, nextData |-> NoNextData],
      [title |-> NULL, caption |-> NULL, nextData |-> NoNextData,
       labelValues |-> << [label |-> <<"C","r","e","d","i","t">>, value |-> <<"B">>] >>] }

\* extractThumbnailsFromSearch's map, imageId -> thumbnailUrl
ThumbnailMaps == { [id \in ImageIds |-> IF id = "i1" THEN <<"thumb">> ELSE NULL] }

\* the thumbnail maps a listing may give
ListingThumbnails(url) ==
    IF url = FiveItemListing THEN { [id \in ImageIds |-> NULL] } ELSE ThumbnailMaps

\* what page.evaluate returns on a 404 page: page.goto resolves for every
\* HTTP status, and the error page may have an h1
NotFoundRawDatas ==
    { [title |-> NULL, caption |-> NULL, labelValues |-> <<>>, nextData |-> NoNextData],
      [title |-> <<"N","o","t"," ","F","o","u","n","d">>, caption |-> NULL,
       labelValues |-> <<>>, nextData |-> NoNextData] }

\* what page.evaluate may return on the detail pages of a listing
DetailRawDatas(url) == IF url = FiveItemListing THEN NotFoundRawDatas ELSE JobRawDatas

\* a tab showing the page at url
OpenTab(url) == [open |-> TRUE, url |-> url]

\* what page.$$('img').length and document.body.scrollHeight may be observed
\* to be; the page's content is observed afresh at every query
ImageCounts == 0..MaxImgs

Heights == 1..MaxHeight

\* the observations a listing allows: the static listing always shows one
\* image at one height, and a click on it leaves the URL as it is, as does a
\* click on the virtual listing, which loads its items into the same page
PageImageCounts(listing) == IF listing = StaticListing THEN {1} ELSE ImageCounts

PageHeights(listing) == IF listing = StaticListing THEN {1} ELSE Heights

UrlsAfterClick(listing, currentUrl) ==
    IF listing \in {StaticListing, VirtualListing, ShiftingListing}
    THEN {currentUrl} ELSE Urls

\* the documents whose items are recorded as visible when an iteration scans
\* the page: those of the virtual listing
VisibleDoms(listing) == IF listing = VirtualListing THEN VirtualDoms ELSE {NoDom}

\* document.querySelectorAll('button, a') as a query may find it, each
\* control either "ok" (an enabled and visible pagination control) or "off"
\* (disabled or not visible); the shifting listing swaps its two controls
ControlLists(listing) ==
    IF listing = ShiftingListing THEN { <<"off", "ok">>, <<"ok", "off">> }
    ELSE { <<>>, <<"ok">> }

\* the index page.evaluate returns: that of the first control that passes
\* the enabled-and-visible check, 0 when none does
ButtonIndex(buttons) ==
    IF \E i \in 1..Len(buttons) : buttons[i] = "ok"
    THEN CHOOSE i \in 1..Len(buttons) :
            buttons[i] = "ok" /\ \A k \in 1..(i - 1) : buttons[k] # "ok"
    ELSE 0

\* the element handle the lookup ends with: allButtons[buttonInfo.index] of a
\* second query when the evaluation found a control, else the first element
\* of the selector fallback that passes the checks on its own handle
LocateButton(evaluated, allButtons, fallback) ==
    LET index == ButtonIndex(evaluated)
    IN  IF index # 0 /\ index <= Len(allButtons) THEN allButtons[index]
        ELSE IF ButtonIndex(fallback) # 0 THEN "ok"
        ELSE "null"

\* config.scrollDelay || 1000
ScrollDelay(config) ==
    IF "scrollDelay" \in DOMAIN config /\ config.scrollDelay # 0
    THEN config.scrollDelay ELSE 1000

\* a patience delay equal to the scroll delay
PatienceDelay_Single(scrollDelay) == scrollDelay

\* const patienceDelay = scrollDelay * 2
PatienceDelay(scrollDelay) == scrollDelay * 2

NoConfig == [maxImages |-> 0, extractDetails |-> FALSE, autoScroll |-> FALSE]

NoImage == NewImage(ItemRef("", ""), NULL)

\* the locals of a scrape call that has not begun
IdleLocals ==
    [pc |-> "idle", config |-> NoConfig, attempts |-> 0, discoveredLinks |-> <<>>,
     thumbnails |-> [id \in ImageIds |-> NULL], imageCount |-> 0, visitedPages |-> {},
     justClickedPagination |-> FALSE, newHeight |-> 0, round |-> 0,
     limitedLinks |-> <<>>, images |-> <<>>, i |-> 0, image |-> NoImage,
     navAttempt |-> 0, error |-> "null", backoff |-> 0, caught |-> FALSE,
     waited |-> 0, visible |-> {}, loadMoreButton |-> "null"]

JobIdle ==
    /\ requests = {}
    /\ scrapeJobs = <<>>
    /\ browser = 0
    /\ launched = 0
    /\ metadataCache = [id \in ImageIds |-> NoEntry]
    /\ tabs = [j \in AllJobs |-> ClosedTab]
    /\ loc = [j \in AllJobs |-> IdleLocals]

\* POST /api/scrape/start: the job is created and scrape is called
StartJob(j) ==
    /\ j \in requests
    /\ \E config \in Configs :
          /\ scrapeJobs' = scrapeJobs @@ (j :> NewJob(j, ListingUrl, config))
          /\ loc' = [loc EXCEPT ![j].pc = "initialize", ![j].config = config]
    /\ requests' = requests \ {j}
    /\ UNCHANGED <<browser, launched, metadataCache, tabs>>
    /\ UNCHANGED <<cleanVars, exVars>>

\* initialize: a launch is begun when there is no browser
Initialize(j) ==
    /\ loc[j].pc = "initialize"
    /\ loc' = [loc EXCEPT ![j].pc = IF browser = 0 THEN "launching" ELSE "newPage"]
    /\ UNCHANGED <<requests, scrapeJobs, browser, launched, metadataCache, tabs>>
    /\ UNCHANGED <<cleanVars, exVars>>

\* puppeteer.launch resolves, or rejects and scrape rejects with it
Launch(j) ==
    /\ loc[j].pc = "launching"
    /\ \/ /\ browser' = launched + 1
          /\ launched' = launched + 1
          /\ loc' = [loc EXCEPT ![j].pc = "newPage"]
       \/ /\ loc' = [loc EXCEPT ![j].pc = "rejected"]
          /\ UNCHANGED <<browser, launched>>
    /\ UNCHANGED <<requests, scrapeJobs, metadataCache, tabs>>
    /\ UNCHANGED <<cleanVars, exVars>>

\* browser.newPage resolves, or rejects and scrape rejects with it
NewPage(j) ==
    /\ loc[j].pc = "newPage"
    /\ \/ /\ tabs' = [tabs EXCEPT ![j] = OpenTab("about:blank")]
          /\ loc' = [loc EXCEPT ![j].pc = "begin"]
       \/ /\ loc' = [loc EXCEPT ![j].pc = "rejected"]
          /\ UNCHANGED tabs
    /\ UNCHANGED <<requests, scrapeJobs, browser, launched, metadataCache>>
    /\ UNCHANGED <<cleanVars, exVars>>

\* the job is marked scraping and the tab is set up
Begin(j) ==
    /\ loc[j].pc = "begin"
    /\ scrapeJobs' = updateScrapeJob(scrapeJobs, j, [status |-> "scraping"])
    /\ loc' = [loc EXCEPT ![j].pc = "goto", ![j].attempts = 0]
    /\ UNCHANGED <<requests, browser, launched, metadataCache, tabs>>
    /\ UNCHANGED <<cleanVars, exVars>>

BaseDelay == 2000

\* a wait that does not grow with the attempts
BackoffDelay_Fixed(attempts) == BaseDelay

\* the wait after a failed attempt of the listing navigation, 2000 * attempts
BackoffDelay(attempts) == BaseDelay * attempts

\* one attempt of the listing navigation, and the wait after it when it
\* failed and another attempt is left
Goto(j) ==
    /\ loc[j].pc = "goto"
    /\ \/ /\ tabs' = [tabs EXCEPT ![j] = OpenTab(scrapeJobs[j].url)]
          /\ loc' = [loc EXCEPT ![j].pc = "collectInitial", ![j].attempts = @ + 1]
       \/ /\ loc' = [loc EXCEPT ![j].attempts = @ + 1,
                                ![j].pc = IF loc[j].attempts + 1 = maxAttempts
                                          THEN "catch" ELSE "goto",
                                ![j].error = IF loc[j].attempts + 1 = maxAttempts
                                             THEN "navigation" ELSE "null",
                                ![j].backoff = IF loc[j].attempts + 1 = maxAttempts
                                               THEN @ ELSE BackoffDelay(loc[j].attempts + 1)]
          /\ UNCHANGED tabs
    /\ UNCHANGED <<requests, scrapeJobs, browser, launched, metadataCache>>
    /\ UNCHANGED <<cleanVars, exVars>>

\* the thumbnails and the initial sweep, or page.evaluate throws; the
\* navigation's attempt counter and its last wait are not read again
CollectInitial(j) ==
    /\ loc[j].pc = "collectInitial"
    /\ \/ \E th \in ListingThumbnails(scrapeJobs[j].url), dom \in ListingDoms(scrapeJobs[j].url) :
            loc' = [loc EXCEPT
                      ![j].attempts = 0,
                      ![j].backoff = 0,
                      ![j].thumbnails = th,
                      ![j].discoveredLinks = SetAll(<<>>, collectPageImageLinks(dom)),
                      ![j].pc = IF loc[j].config.autoScroll THEN "loopHead" ELSE "collectFinal"]
       \/ loc' = [loc EXCEPT ![j].pc = "catch", ![j].error = "evaluate"]
    /\ UNCHANGED <<requests, scrapeJobs, browser, launched, metadataCache, tabs>>
    /\ UNCHANGED <<cleanVars, exVars>>

\* autoScroll returns: its locals are gone and scrape goes on to the final sweep
ReturnFromAutoScroll(l) ==
    [l EXCEPT !.imageCount = 0, !.visitedPages = {}, !.justClickedPagination = FALSE,
              !.newHeight = 0, !.round = 0, !.waited = 0, !.loadMoreButton = "null",
              !.pc = "collectFinal"]

\* autoScroll's progress report, as scrape's callback stores it
DiscoveryProgress(imageCount, maxImages) ==
    [progress      |-> IF maxImages = 0 THEN 0 ELSE RoundPercent(imageCount, maxImages),
     scrapedImages |-> imageCount,
     totalImages   |-> IF maxImages = 0 THEN imageCount ELSE maxImages]

\* the page-state key, currentUrl + '-' + imageCount
PageKey(url, imageCount) == <<url, imageCount>>

\* the head of autoScroll's loop: the cap, the visited check, the image count
\* and the progress report
LoopHead(j) ==
    LET l == loc[j]
        maxImages == l.config.maxImages
        currentPageKey == PageKey(tabs[j].url, l.imageCount)
    IN  /\ l.pc = "loopHead"
        /\ IF ~(maxImages = 0 \/ l.imageCount < maxImages)
           THEN loc' = [loc EXCEPT ![j] = ReturnFromAutoScroll(l)] /\ UNCHANGED scrapeJobs
           ELSE IF ~l.justClickedPagination /\ currentPageKey \in l.visitedPages
           THEN loc' = [loc EXCEPT ![j] = ReturnFromAutoScroll(l)] /\ UNCHANGED scrapeJobs
           ELSE \E count \in PageImageCounts(scrapeJobs[j].url),
                   dom \in VisibleDoms(scrapeJobs[j].url) :
                /\ loc' = [loc EXCEPT ![j].justClickedPagination = FALSE,
                                      ![j].visible = @ \cup LinkIds(collectPageImageLinks(dom)),
                                      ![j].visitedPages = @ \cup {currentPageKey},
                                      ![j].imageCount = count,
                                      ![j].pc = "findButton"]
                /\ scrapeJobs' = updateScrapeJob(scrapeJobs, j,
                                     DiscoveryProgress(count, maxImages))
        /\ UNCHANGED <<requests, browser, launched, metadataCache, tabs>>
        /\ UNCHANGED <<cleanVars, exVars>>

\* the search for a pagination control
FindButton(j) ==
    /\ loc[j].pc = "findButton"
    /\ \E evaluated \in ControlLists(scrapeJobs[j].url),
          allButtons \in ControlLists(scrapeJobs[j].url),
          fallback \in ControlLists(scrapeJobs[j].url) :
          LET button == LocateButton(evaluated, allButtons, fallback)
          IN  loc' = [loc EXCEPT ![j].loadMoreButton = button,
                                 ![j].pc = IF button # "null" THEN "click" ELSE "scroll"]
    /\ UNCHANGED <<requests, scrapeJobs, browser, launched, metadataCache, tabs>>
    /\ UNCHANGED <<cleanVars, exVars>>

\* whether a click counts as a pagination: the URL differs or the images grew
ClickSucceeded(beforeUrl, beforeCount, afterUrl, afterCount) ==
    afterUrl # beforeUrl \/ afterCount > beforeCount

\* the click on the control, the settle delay and the comparison; `failed`
\* is where the loop goes on when the click changed nothing or threw
ClickStep(j, from, failed) ==
    /\ loc[j].pc = from
    /\ \/ \E afterClickUrl \in UrlsAfterClick(scrapeJobs[j].url, tabs[j].url),
             afterClickImageCount \in PageImageCounts(scrapeJobs[j].url) :
            /\ tabs' = [tabs EXCEPT ![j] = OpenTab(afterClickUrl)]
            /\ IF ClickSucceeded(tabs[j].url, loc[j].imageCount,
                                 afterClickUrl, afterClickImageCount)
               THEN \/ \E dom \in ListingDoms(scrapeJobs[j].url) :
                         loc' = [loc EXCEPT
                                   ![j].justClickedPagination = TRUE,
                                   ![j].loadMoreButton = "null",
                                   ![j].discoveredLinks = SetAll(@, collectPageImageLinks(dom)),
                                   ![j].newHeight = 0,
                                   ![j].round = 0,
                                   ![j].pc = "loopHead"]
                    \/ loc' = [loc EXCEPT ![j].justClickedPagination = TRUE,
                                          ![j].loadMoreButton = "null",
                                          ![j].pc = failed]
               ELSE loc' = [loc EXCEPT ![j].loadMoreButton = "null", ![j].pc = failed]
       \/ /\ loc' = [loc EXCEPT ![j].loadMoreButton = "null", ![j].pc = failed]
          /\ UNCHANGED tabs
    /\ UNCHANGED <<requests, scrapeJobs, browser, launched, metadataCache>>
    /\ UNCHANGED <<cleanVars, exVars>>

Click(j) == ClickStep(j, "click", "scroll")

\* the scroll to the bottom and the comparison of the heights
ScrollDown(j) ==
    /\ loc[j].pc = "scroll"
    /\ \/ \E previousHeight \in PageHeights(scrapeJobs[j].url),
             newHeight \in PageHeights(scrapeJobs[j].url) :
            loc' = IF newHeight = previousHeight
                   THEN [loc EXCEPT ![j].newHeight = newHeight, ![j].pc = "bottomFind"]
                   ELSE [loc EXCEPT ![j].pc = "loopHead"]
       \/ loc' = [loc EXCEPT ![j].pc = "catch", ![j].error = "evaluate"]
    /\ UNCHANGED <<requests, scrapeJobs, browser, launched, metadataCache, tabs>>
    /\ UNCHANGED <<cleanVars, exVars>>

\* the search for a pagination control at the bottom
BottomFind(j) ==
    /\ loc[j].pc = "bottomFind"
    /\ \E evaluated \in ControlLists(scrapeJobs[j].url),
          allButtons \in ControlLists(scrapeJobs[j].url),
          fallback \in ControlLists(scrapeJobs[j].url) :
          LET button == LocateButton(evaluated, allButtons, fallback)
          IN  loc' = [loc EXCEPT ![j].loadMoreButton = button,
                                 ![j].pc = IF button # "null" THEN "bottomClick"
                                           ELSE "patience",
                                 ![j].round = 1]
    /\ UNCHANGED <<requests, scrapeJobs, browser, launched, metadataCache, tabs>>
    /\ UNCHANGED <<cleanVars, exVars>>

BottomClick(j) == ClickStep(j, "bottomClick", "patience")

\* one patience round: the wait and the comparison of the heights
Patience(j) ==
    /\ loc[j].pc = "patience"
    /\ \E currentHeight \in PageHeights(scrapeJobs[j].url) :
          loc' = IF currentHeight > loc[j].newHeight
                 THEN [loc EXCEPT ![j].pc = "loopHead", ![j].newHeight = 0, ![j].round = 0,
                                  ![j].waited = 0]
                 ELSE IF loc[j].round = patienceRounds
                 THEN [loc EXCEPT ![j] = ReturnFromAutoScroll(loc[j])]
                 ELSE [loc EXCEPT ![j].round = @ + 1,
                                  ![j].waited = PatienceDelay(ScrollDelay(loc[j].config))]
    /\ UNCHANGED <<requests, scrapeJobs, browser, launched, metadataCache, tabs>>
    /\ UNCHANGED <<cleanVars, exVars>>

\* imageLinks.slice(0, maxImages), every link when maxImages is 0
LimitLinks_Uncapped(imageLinks, maxImages) == imageLinks

\* config.maxImages === 0 ? imageLinks : imageLinks.slice(0, config.maxImages)
LimitLinks(imageLinks, maxImages) ==
    IF maxImages = 0 \/ Len(imageLinks) <= maxImages THEN imageLinks
    ELSE SubSeq(imageLinks, 1, maxImages)

\* the final sweep and the cap, or page.evaluate throws
CollectFinal(j) ==
    /\ loc[j].pc = "collectFinal"
    /\ \/ \E dom \in ListingDoms(scrapeJobs[j].url) :
            LET links == SetAll(loc[j].discoveredLinks, collectPageImageLinks(dom))
            IN  loc' = [loc EXCEPT
                          ![j].discoveredLinks = links,
                          ![j].limitedLinks = LimitLinks(links, loc[j].config.maxImages),
                          ![j].pc = "item"]
       \/ loc' = [loc EXCEPT ![j].pc = "catch", ![j].error = "evaluate"]
    /\ UNCHANGED <<requests, scrapeJobs, browser, launched, metadataCache, tabs>>
    /\ UNCHANGED <<cleanVars, exVars>>

\* an item whose exception would leave the loop for scrape's catch block
ItemDone_Uncaught(j, image, caught) ==
    /\ loc' = [loc EXCEPT ![j].pc = IF caught THEN "catch" ELSE "item",
                          ![j].error = IF caught THEN "item" ELSE @,
                          ![j].images = Append(@, image), ![j].image = NoImage,
                          ![j].i = @ + 1, ![j].navAttempt = 0, ![j].caught = caught]
    /\ UNCHANGED scrapeJobs

\* images.push(image), the progress update and the next index; `caught`
\* tells whether a catch block ran for this item (extractImageData's, or the
\* loop's own when callbacks.onProgress throws), and is kept until the next
\* item ends
ItemDone(j, image, caught) ==
    LET l == loc[j]
        images == Append(l.images, image)
        total == Len(l.limitedLinks)
    IN  /\ scrapeJobs' = updateScrapeJob(scrapeJobs, j,
                             [progress |-> RoundPercent(l.i + 1, total),
                              scrapedImages |-> Len(images),
                              totalImages |-> total,
                              images |-> images])
        /\ loc' = [loc EXCEPT ![j].images = images, ![j].image = NoImage,
                              ![j].i = @ + 1, ![j].navAttempt = 0, ![j].pc = "item",
                              ![j].caught = caught]

\* the JSON payloads the responses on a job's tab carry: those of the second
\* job's tab name another photographer, which tells the tabs apart
TabCacheEntries(j) ==
    IF j = "j2" THEN { [EmptyEntry EXCEPT !["photographer"] = <<"B">>] }
    ELSE JobCacheEntries

\* the response handler stores a payload under its imageId: a payload about
\* one of the listing's items; the cache is read only when an item begins,
\* so the store is taken between items
Intercept(j) ==
    /\ loc[j].pc = "item"
    /\ tabs[j].open
    /\ \E id \in LinkIds(loc[j].discoveredLinks), entry \in TabCacheEntries(j) :
          /\ metadataCache[id] # entry
          /\ metadataCache' = [metadataCache EXCEPT ![id] = entry]
    /\ UNCHANGED <<requests, scrapeJobs, browser, launched, tabs, loc>>
    /\ UNCHANGED <<cleanVars, exVars>>

\* a loop that takes the last reference at every iteration
linkData_Last(l) == l.limitedLinks[Len(l.limitedLinks)]

\* const linkData = limitedLinks[i], with the model's i counting from 0
linkData(l) == l.limitedLinks[l.i + 1]

\* a payload that arrives while an item's detail page is loading: it names a
\* photographer no page and no earlier payload names
LateCacheEntry == [EmptyEntry EXCEPT !["photographer"] = <<"L">>]

\* a response handler that also writes the image under construction
InterceptInFlight_Patches(j) ==
    /\ loc[j].pc \in {"itemGoto", "itemEvaluate"}
    /\ tabs[j].open
    /\ LET id == loc[j].image["imageId"]
       IN  /\ metadataCache[id] # LateCacheEntry
           /\ metadataCache' = [metadataCache EXCEPT ![id] = LateCacheEntry]
           /\ loc' = [loc EXCEPT ![j].image = ApplyCached(@, LateCacheEntry)]
    /\ UNCHANGED <<requests, scrapeJobs, browser, launched, tabs>>
    /\ UNCHANGED <<cleanVars, exVars>>

\* the response handler runs while extractImageData awaits page.goto,
\* waitForSelector or page.evaluate: it stores a payload about the item in
\* extraction, or about another item of the listing
InterceptInFlight(j) ==
    /\ loc[j].pc \in {"itemGoto", "itemEvaluate"}
    /\ tabs[j].open
    /\ \E id \in LinkIds(loc[j].discoveredLinks) :
          /\ metadataCache[id] # LateCacheEntry
          /\ metadataCache' = [metadataCache EXCEPT ![id] = LateCacheEntry]
    /\ UNCHANGED <<requests, scrapeJobs, browser, launched, tabs, loc>>
    /\ UNCHANGED <<cleanVars, exVars>>

\* an item start that navigates whatever config.extractDetails says
ItemStart_AlwaysDetails(j) ==
    LET l == loc[j] IN
    /\ l.pc = "item"
    /\ l.i < Len(l.limitedLinks)
    /\ LET ref == linkData(l)
           image == Tier0Image(ref, l.thumbnails[ref.imageId],
                               metadataCache[ref.imageId])
       IN  loc' = [loc EXCEPT ![j].image = image, ![j].navAttempt = 1,
                              ![j].pc = "itemGoto"]
    /\ UNCHANGED <<requests, scrapeJobs, browser, launched, metadataCache, tabs>>
    /\ UNCHANGED <<cleanVars, exVars>>

\* extractImageData begins for limitedLinks[i]: the image and the cache lookup
ItemStart(j) ==
    LET l == loc[j] IN
    /\ l.pc = "item"
    /\ l.i < Len(l.limitedLinks)
    /\ LET ref == linkData(l)
           image == Tier0Image(ref, l.thumbnails[ref.imageId],
                               metadataCache[ref.imageId])
       IN  IF l.config.extractDetails
           THEN /\ loc' = [loc EXCEPT ![j].image = image, ![j].navAttempt = 1,
                                      ![j].pc = "itemGoto"]
                /\ UNCHANGED scrapeJobs
           ELSE \E threw \in BOOLEAN : ItemDone(j, image, threw)
    /\ UNCHANGED <<requests, browser, launched, metadataCache, tabs>>
    /\ UNCHANGED <<cleanVars, exVars>>

\* one page.goto of the detail page
ItemGoto(j) ==
    LET l == loc[j] IN
    /\ l.pc = "itemGoto"
    /\ \/ /\ tabs' = [tabs EXCEPT ![j] = OpenTab(linkData(l).url)]
          /\ loc' = [loc EXCEPT ![j].pc = "itemEvaluate"]
          /\ UNCHANGED scrapeJobs
       \/ /\ IF l.navAttempt = DetailAttempts
             THEN ItemDone(j, l.image, TRUE)
             ELSE /\ loc' = [loc EXCEPT ![j].navAttempt = @ + 1]
                  /\ UNCHANGED scrapeJobs
          /\ UNCHANGED tabs
    /\ UNCHANGED <<requests, browser, launched, metadataCache>>
    /\ UNCHANGED <<cleanVars, exVars>>

\* page.evaluate, parseMetadata and the merge, or the catch of the item
ItemEvaluate(j) ==
    LET l == loc[j] IN
    /\ l.pc = "itemEvaluate"
    /\ \/ \E rawData \in DetailRawDatas(scrapeJobs[j].url) :
            \E threw \in BOOLEAN :
                ItemDone(j, MergeMetadata(l.image, parseMetadata(rawData)), threw)
       \/ ItemDone(j, l.image, TRUE)
    /\ UNCHANGED <<requests, browser, launched, metadataCache, tabs>>
    /\ UNCHANGED <<cleanVars, exVars>>

\* a completion update that only sets the status
CompletionUpdate_StatusOnly == [status |-> "completed"]

\* the update that marks a job completed
CompletionUpdate == [status |-> "completed", progress |-> 100, completedAt |-> "t1"]

\* the loop is over: the job is marked completed
Complete(j) ==
    LET l == loc[j] IN
    /\ l.pc = "item"
    /\ l.i = Len(l.limitedLinks)
    /\ scrapeJobs' = updateScrapeJob(scrapeJobs, j, CompletionUpdate)
    /\ loc' = [loc EXCEPT ![j].pc = "onComplete", ![j].caught = FALSE]
    /\ UNCHANGED <<requests, browser, launched, metadataCache, tabs>>
    /\ UNCHANGED <<cleanVars, exVars>>

\* callbacks.onComplete, if the caller gave one: it returns or it throws
OnComplete(j) ==
    /\ loc[j].pc = "onComplete"
    /\ \/ loc' = [loc EXCEPT ![j].pc = "finallyReturn"]
       \/ loc' = [loc EXCEPT ![j].pc = "catch", ![j].error = "onComplete"]
    /\ UNCHANGED <<requests, scrapeJobs, browser, launched, metadataCache, tabs>>
    /\ UNCHANGED <<cleanVars, exVars>>

\* the catch block: the job is marked error and the error is rethrown
Catch(j) ==
    /\ loc[j].pc = "catch"
    /\ scrapeJobs' = updateScrapeJob(scrapeJobs, j,
                         [status |-> "error", error |-> loc[j].error])
    /\ loc' = [loc EXCEPT ![j].pc = "finallyThrow"]
    /\ UNCHANGED <<requests, browser, launched, metadataCache, tabs>>
    /\ UNCHANGED <<cleanVars, exVars>>

\* a scrape whose tab is closed on the return path only
Finally_OnReturnOnly(j) ==
    /\ loc[j].pc \in {"finallyReturn", "finallyThrow"}
    /\ tabs' = [tabs EXCEPT ![j] = IF loc[j].pc = "finallyReturn" THEN ClosedTab ELSE @]
    /\ loc' = [loc EXCEPT ![j].pc = IF loc[j].pc = "finallyReturn"
                                    THEN "resolved" ELSE "rejected"]
    /\ UNCHANGED <<requests, scrapeJobs, browser, launched, metadataCache>>
    /\ UNCHANGED <<cleanVars, exVars>>

\* the finally block: the tab is closed and scrape settles
Finally(j) ==
    /\ loc[j].pc \in {"finallyReturn", "finallyThrow"}
    /\ tabs' = [tabs EXCEPT ![j] = ClosedTab]
    /\ loc' = [loc EXCEPT ![j].pc = IF loc[j].pc = "finallyReturn"
                                    THEN "resolved" ELSE "rejected"]
    /\ UNCHANGED <<requests, scrapeJobs, browser, launched, metadataCache>>
    /\ UNCHANGED <<cleanVars, exVars>>

(***************************************************************************)
(* Specifications                                                          *)
(***************************************************************************)
InitExtract ==
    /\ CleanIdle
    /\ JobIdle
    /\ exPc = "start"
    /\ exRef = ItemRef("h1", "i1")
    /\ exDetails \in BOOLEAN
    /\ exHint \in ThumbnailHints
    /\ exCache \in CacheEntries
    /\ exRaw \in RawDatas
    /\ exAttempt = 1
    /\ exImage = NewImage(exRef, NULL)
    /\ exResult = EmptyMeta
    /\ exCaught = FALSE

InitClean == cleanIn \in CleanInputs /\ cleanOut = PENDING /\ ExIdle /\ JobIdle

NextClean == CleanText

SpecClean == InitClean /\ [][NextClean]_vars

NextExtract == ExStart \/ ExGoto \/ ExEvaluate \/ ExTier1 \/ ExTier2 \/ ExTier3 \/ ExMerge

SpecExtract == InitExtract /\ [][NextExtract]_vars

\* one client asks for one job
Init ==
    /\ CleanIdle
    /\ ExIdle
    /\ requests = {"j1"}
    /\ scrapeJobs = <<>>
    /\ browser = 0
    /\ launched = 0
    /\ metadataCache = [id \in ImageIds |-> NoEntry]
    /\ tabs = [j \in AllJobs |-> ClosedTab]
    /\ loc = [j \in AllJobs |-> IdleLocals]

\* the steps of a job up to the end of discovery
DiscoveryStep(j) ==
    \/ Initialize(j) \/ Launch(j) \/ NewPage(j) \/ Begin(j)
    \/ Goto(j) \/ CollectInitial(j) \/ LoopHead(j) \/ FindButton(j) \/ Click(j)
    \/ ScrollDown(j) \/ BottomFind(j) \/ BottomClick(j) \/ Patience(j)
    \/ CollectFinal(j)

\* the steps of a job after discovery
ExtractionStep(j) ==
    \/ Intercept(j) \/ ItemStart(j) \/ ItemGoto(j) \/ ItemEvaluate(j)
    \/ Complete(j) \/ OnComplete(j) \/ Catch(j) \/ Finally(j)

NextDiscovery == \E j \in AllJobs : DiscoveryStep(j)

Next == \E j \in AllJobs : StartJob(j) \/ DiscoveryStep(j) \/ ExtractionStep(j)

Spec == Init /\ [][Next]_vars

\* the configurations of a discovery run: unlimited, or a positive cap
DiscoveryConfigs == [maxImages : {0, MaxCap}, extractDetails : {FALSE}, autoScroll : {TRUE}]

\* one job has been created and its scrape call is about to initialize
InitDiscovery ==
    /\ CleanIdle
    /\ ExIdle
    /\ requests = {}
    /\ \E config \in DiscoveryConfigs :
          /\ scrapeJobs = ("j1" :> NewJob("j1", ListingUrl, config))
          /\ loc = [j \in AllJobs |-> IF j = "j1"
                                       THEN [IdleLocals EXCEPT !.pc = "initialize",
                                                               !.config = config]
                                       ELSE IdleLocals]
    /\ browser = 0
    /\ launched = 0
    /\ metadataCache = [id \in ImageIds |-> NoEntry]
    /\ tabs = [j \in AllJobs |-> ClosedTab]

\* the configurations of a job that does not scroll
NoScrollConfigs == [maxImages : 0..MaxCap, extractDetails : BOOLEAN, autoScroll : {FALSE}]

\* a job that does not scroll has been created
InitNoScroll ==
    /\ CleanIdle
    /\ ExIdle
    /\ requests = {}
    /\ \E config \in NoScrollConfigs :
          /\ scrapeJobs = ("j1" :> NewJob("j1", ListingUrl, config))
          /\ loc = [j \in AllJobs |-> IF j = "j1"
                                       THEN [IdleLocals EXCEPT !.pc = "initialize",
                                                               !.config = config]
                                       ELSE IdleLocals]
    /\ browser = 0
    /\ launched = 0
    /\ metadataCache = [id \in ImageIds |-> NoEntry]
    /\ tabs = [j \in AllJobs |-> ClosedTab]

\* the steps of a job that does not scroll
NextNoScroll ==
    \E j \in AllJobs :
        \/ Initialize(j) \/ Launch(j) \/ NewPage(j) \/ Begin(j) \/ Goto(j)
        \/ CollectInitial(j) \/ CollectFinal(j) \/ ExtractionStep(j)

SpecNoScroll == InitNoScroll /\ [][NextNoScroll]_vars

\* the job of the 404 scenario has been created: maxImages 2 with detail
\* extraction, on the five-item listing
InitNotFound ==
    /\ CleanIdle
    /\ ExIdle
    /\ requests = {}
    /\ \E config \in [maxImages : {2}, extractDetails : {TRUE}, autoScroll : BOOLEAN] :
          /\ scrapeJobs = ("j1" :> NewJob("j1", FiveItemListing, config))
          /\ loc = [j \in AllJobs |-> IF j = "j1"
                                       THEN [IdleLocals EXCEPT !.pc = "initialize",
                                                               !.config = config]
                                       ELSE IdleLocals]
    /\ browser = 0
    /\ launched = 0
    /\ metadataCache = [id \in ImageIds |-> NoEntry]
    /\ tabs = [j \in AllJobs |-> ClosedTab]

NextScrape == \E j \in AllJobs : DiscoveryStep(j) \/ ExtractionStep(j)

SpecNotFound == InitNotFound /\ [][NextScrape]_vars

\* a job with detail extraction and no scrolling, whose tab receives
\* payloads while the detail pages load
InitLateCache ==
    /\ CleanIdle
    /\ ExIdle
    /\ requests = {}
    /\ \E config \in [maxImages : 0..MaxCap, extractDetails : {TRUE}, autoScroll : {FALSE}] :
          /\ scrapeJobs = ("j1" :> NewJob("j1", ListingUrl, config))
          /\ loc = [j \in AllJobs |-> IF j = "j1"
                                       THEN [IdleLocals EXCEPT !.pc = "initialize",
                                                               !.config = config]
                                       ELSE IdleLocals]
    /\ browser = 0
    /\ launched = 0
    /\ metadataCache = [id \in ImageIds |-> NoEntry]
    /\ tabs = [j \in AllJobs |-> ClosedTab]

NextLateCache ==
    \E j \in AllJobs :
        \/ Initialize(j) \/ Launch(j) \/ NewPage(j) \/ Begin(j) \/ Goto(j)
        \/ CollectInitial(j) \/ CollectFinal(j) \/ ExtractionStep(j)
        \/ InterceptInFlight(j)

SpecLateCache == InitLateCache /\ [][NextLateCache]_vars

\* two jobs on the five-item listing, capped at one item: j1 scrolls and
\* paginates, j2 does not scroll and opens the detail page of its item
TwoJobConfigs ==
    ("j1" :> [maxImages |-> 1, extractDetails |-> FALSE, autoScroll |-> TRUE]) @@
    ("j2" :> [maxImages |-> 1, extractDetails |-> TRUE, autoScroll |-> FALSE])

\* both jobs have been created and both scrape calls are about to initialize
InitTwoJobs ==
    /\ CleanIdle
    /\ ExIdle
    /\ requests = {}
    /\ scrapeJobs = [j \in AllJobs |-> NewJob(j, FiveItemListing, TwoJobConfigs[j])]
    /\ loc = [j \in AllJobs |-> [IdleLocals EXCEPT !.pc = "initialize",
                                                   !.config = TwoJobConfigs[j]]]
    /\ browser = 0
    /\ launched = 0
    /\ metadataCache = [id \in ImageIds |-> NoEntry]
    /\ tabs = [j \in AllJobs |-> ClosedTab]

\* the steps of the two scrape calls, interleaved at their awaits; the
\* response interceptor, which touches the metadata cache only, is left out
NextTwoJobs ==
    \E j \in AllJobs :
        \/ DiscoveryStep(j)
        \/ ItemStart(j) \/ ItemGoto(j) \/ ItemEvaluate(j)
        \/ Complete(j) \/ OnComplete(j) \/ Catch(j) \/ Finally(j)

SpecTwoJobs == InitTwoJobs /\ [][NextTwoJobs]_vars

\* two jobs without scrolling and without detail extraction, on the two
\* listings that share item i1
SharedCacheUrls == ("j1" :> "u6") @@ ("j2" :> "u7")

SharedCacheConfig == [maxImages |-> 0, extractDetails |-> FALSE, autoScroll |-> FALSE]

InitSharedCache ==
    /\ CleanIdle
    /\ ExIdle
    /\ requests = {}
    /\ scrapeJobs = [j \in AllJobs |-> NewJob(j, SharedCacheUrls[j], SharedCacheConfig)]
    /\ loc = [j \in AllJobs |-> [IdleLocals EXCEPT !.pc = "initialize",
                                                   !.config = SharedCacheConfig]]
    /\ browser = 0
    /\ launched = 0
    /\ metadataCache = [id \in ImageIds |-> NoEntry]
    /\ tabs = [j \in AllJobs |-> ClosedTab]

\* the steps of two scrape calls that neither scroll nor open detail pages
NextSharedCache ==
    \E j \in AllJobs :
        \/ Initialize(j) \/ Launch(j) \/ NewPage(j) \/ Begin(j) \/ Goto(j)
        \/ CollectInitial(j) \/ CollectFinal(j) \/ Intercept(j) \/ ItemStart(j)
        \/ Complete(j) \/ OnComplete(j) \/ Catch(j) \/ Finally(j)

SpecSharedCache == InitSharedCache /\ [][NextSharedCache]_vars

\* the configurations of a scrolling job on the static listing
StaticConfigs ==
    [maxImages : 0..MaxCap, extractDetails : {FALSE}, autoScroll : {TRUE},
     scrollDelay : {500, 1000}]

\* a scrolling job on the static listing has been created
InitStatic ==
    /\ CleanIdle
    /\ ExIdle
    /\ requests = {}
    /\ \E config \in StaticConfigs :
          /\ scrapeJobs = ("j1" :> NewJob("j1", StaticListing, config))
          /\ loc = [j \in AllJobs |-> IF j = "j1"
                                       THEN [IdleLocals EXCEPT !.pc = "initialize",
                                                               !.config = config]
                                       ELSE IdleLocals]
    /\ browser = 0
    /\ launched = 0
    /\ metadataCache = [id \in ImageIds |-> NoEntry]
    /\ tabs = [j \in AllJobs |-> ClosedTab]

SpecStatic == InitStatic /\ [][NextDiscovery]_vars

\* an uncapped scrolling job on the virtual listing has been created
InitVirtual ==
    /\ CleanIdle
    /\ ExIdle
    /\ requests = {}
    /\ LET config == [maxImages |-> 0, extractDetails |-> FALSE, autoScroll |-> TRUE]
       IN  /\ scrapeJobs = ("j1" :> NewJob("j1", VirtualListing, config))
           /\ loc = [j \in AllJobs |-> IF j = "j1"
                                        THEN [IdleLocals EXCEPT !.pc = "initialize",
                                                                !.config = config]
                                        ELSE IdleLocals]
    /\ browser = 0
    /\ launched = 0
    /\ metadataCache = [id \in ImageIds |-> NoEntry]
    /\ tabs = [j \in AllJobs |-> ClosedTab]

SpecVirtual == InitVirtual /\ [][NextDiscovery]_vars

\* an uncapped scrolling job on the shifting listing has been created
InitShifting ==
    /\ CleanIdle
    /\ ExIdle
    /\ requests = {}
    /\ LET config == [maxImages |-> 0, extractDetails |-> FALSE, autoScroll |-> TRUE]
       IN  /\ scrapeJobs = ("j1" :> NewJob("j1", ShiftingListing, config))
           /\ loc = [j \in AllJobs |-> IF j = "j1"
                                        THEN [IdleLocals EXCEPT !.pc = "initialize",
                                                                !.config = config]
                                        ELSE IdleLocals]
    /\ browser = 0
    /\ launched = 0
    /\ metadataCache = [id \in ImageIds |-> NoEntry]
    /\ tabs = [j \in AllJobs |-> ClosedTab]

SpecShifting == InitShifting /\ [][NextDiscovery]_vars

\* a discovery run that keeps taking steps while it has one to take
SpecDiscovery == InitDiscovery /\ [][NextDiscovery]_vars /\ WF_vars(NextDiscovery)

(***************************************************************************)
(* Claims about the sanitizer                                              *)
(***************************************************************************)
RejectedWords ==
    { <<"s","c","r","i","p","t">>, <<"i","f","r","a","m","e">>,
      <<"o","n","c","l","i","c","k">>, <<"o","n","e","r","r","o","r">>,
      <<"o","n","l","o","a","d">>,
      <<"a","d","d"," ","t","o"," ","b","o","a","r","d">>,
      <<"c","o","p","y"," ","l","i","n","k">>,
      <<"c","o","p","y"," ","e","m","b","e","d">> }

HasRejectedWord(s) == \E w \in RejectedWords : includes(toLowerCase(s), w)

\* a short plain value: no markup, no rejected word, and after trimming
\* between 1 and 200 characters on at most 3 lines
ShortPlain(s) ==
    /\ \A i \in 1..Len(s) : s[i] \notin {"<", ">"}
    /\ ~HasRejectedWord(s)
    /\ Len(trim(s)) \in 1..200
    /\ SplitLines(trim(s)) <= 3

\* C10: the sanitizer returns null for every string that holds (in any
\* letter case) script, iframe, onclick, onerror, onload or a blocklisted UI
\* phrase, or whose cleaned text is longer than 200 characters or spans
\* more than 3 lines; it returns the trimmed text of a short plain value.
C10_SanitizerVerdict ==
    (cleanOut # PENDING /\ cleanIn # NULL) =>
        /\ HasRejectedWord(cleanIn) => cleanOut = NULL
        /\ Len(CleanedText(cleanIn)) > 200 => cleanOut = NULL
        /\ SplitLines(CleanedText(cleanIn)) > 3 => cleanOut = NULL
        /\ ShortPlain(cleanIn) => cleanOut = trim(cleanIn)

\* the sanitizer has rejected "<script>alert(1)</script>"
C10_Witness ==
    /\ cleanIn = <<"<","s","c","r","i","p","t",">","a","l","e","r","t","(","1",")",
                   "<","/","s","c","r","i","p","t",">">>
    /\ cleanOut = NULL

(***************************************************************************)
(* Claims about the extraction tiers                                       *)
(***************************************************************************)
\* what each tier supplies when it is the only tier, as a record of the fields
TierValues(k) ==
    CASE k = 0 -> Tier0Image(exRef, exHint, exCache)
      [] k = 1 -> ParseTier1(EmptyMeta, exRaw)
      [] k = 2 -> ParseTier2(EmptyMeta, exRaw)
      [] k = 3 -> ParseTier3(EmptyMeta, exRaw)

\* the first of four values that is neither null nor empty, NULL if none is
FirstSupplied(a, b, c, d) ==
    IF Truthy(a) THEN a
    ELSE IF Truthy(b) THEN b
    ELSE IF Truthy(c) THEN c
    ELSE IF Truthy(d) THEN d
    ELSE NULL

\* the call returned after all four tiers ran
AllTiersRan == exPc = "returned" /\ exDetails /\ ~exCaught

\* C7: a field value supplied by an earlier tier is never overwritten by a
\* later tier: a value in the image (Tier 0) survives every later step, a
\* value in parseMetadata's result survives the later tiers, and the merge
\* takes the result's value only for a field the image does not hold.
C7_EarlierTierKept ==
    [][\A f \in Fields :
          /\ Truthy(exImage[f]) => exImage'[f] = exImage[f]
          /\ (exPc \in {"tier2", "tier3"} /\ Truthy(exResult[f])) => exResult'[f] = exResult[f]
          /\ (exPc = "merge" /\ ~Truthy(exImage[f])) => exImage'[f] = exResult[f]]_vars

\* Tier 0 supplied photographer "A", Tier 1 would supply "B", and the
\* returned photographer is "A"
C7_Witness ==
    /\ AllTiersRan
    /\ TierValues(0)["photographer"] = <<"A">>
    /\ TierValues(1)["photographer"] = <<"B">>
    /\ exImage["photographer"] = <<"A">>

\* C8: for every field, the returned value is the value of the
\* lowest-numbered tier that supplies a non-null value for that field,
\* whatever the other fields hold.
C8_FirstSupplyingTierWins ==
    AllTiersRan =>
        LET t0 == TierValues(0)
            t1 == TierValues(1)
            t2 == TierValues(2)
            t3 == TierValues(3)
        IN  \A f \in Fields : exImage[f] = FirstSupplied(t0[f], t1[f], t2[f], t3[f])

\* the shape of every value cleanTextHelper returns: not empty, no angle
\* bracket, trimmed, at most 200 characters on at most 3 lines
SanitizerOutputShape(v) ==
    /\ v # <<>>
    /\ \A i \in 1..Len(v) : v[i] \notin {"<", ">"}
    /\ trim(v) = v
    /\ Len(v) <= 200
    /\ SplitLines(v) <= 3

\* C9: every non-null text field of a returned record is a value that
\* passed the sanitizer, whichever tier supplied it.
C9_FieldsSanitized ==
    exPc \in {"returned", "returnedPartial"} =>
        \A f \in Fields : exImage[f] # NULL => SanitizerOutputShape(exImage[f])

\* C13: extractImageData never raises and always returns a record whose
\* imageId, hash and url are those of the reference passed in, whatever the
\* cache lookup, the detail navigation (failure on every attempt included)
\* and the page evaluation did: every call ends by returning its image.
C13_AlwaysTheReferenceRecord ==
    /\ exPc \in {"idle", "start", "goto", "evaluate", "tier1", "tier2", "tier3", "merge",
                  "returned", "returnedPartial"}
    /\ exPc \in {"returned", "returnedPartial"}
          => /\ exImage["imageId"] = exRef.imageId
             /\ exImage["url"] = exRef.url
             /\ exImage["hash"] = exRef.hash

\* the navigation failed on every attempt and the partial record came back
\* with a cached photographer
C13_Witness ==
    /\ exPc = "returnedPartial"
    /\ exAttempt = DetailAttempts
    /\ exImage["url"] = exRef.url
    /\ exImage["photographer"] = <<"A">>

\* C15: navigation to an item's detail page is retried up to 3 attempts
\* (with a wait of base delay x attempt number between them) before the item
\* degrades to a partial record: a call that returns the partial record for
\* want of navigation has made 3 attempts.
C15_ThreeDetailAttempts ==
    exPc = "returnedPartial" => exAttempt = 3

\* the text after the label that ends just before q, up to the next "/" or
\* the end of the line, trimmed
TextAfterLabel(s, q) ==
    IF q > Len(s) THEN <<>> ELSE trim(SubSeq(s, q, RunEnd(s, q, {"/", "\n"})))

\* the values of the sub-lines of s that carry one of the labels
LabelledValues(s, labels) ==
    { TextAfterLabel(s, p + Len(lab)) :
        <<p, lab>> \in { x \in (1..Len(s)) \X labels :
                           /\ x[1] + Len(x[2]) - 1 <= Len(s)
                           /\ toLowerCase(SubSeq(s, x[1], x[1] + Len(x[2]) - 1)) = x[2] } }

\* the labels of the sub-line that feeds a field
LineLabels(f) == IF f = "photographer" THEN CreditLabels ELSE WhenLabels

\* the text before the first comma, trimmed
BeforeFirstComma(v) == trim(SubSeq(v, 1, RunEnd(v, 1, {","})))

\* C11: with no earlier tier supplying the fields, the caption "Where:
\* Paris, France / When: 2021-05-01 / Credit: J. Doe" yields city "Paris",
\* country "France", date "2021-05-01" and photographer "J. Doe"; and in
\* general a value the caption fallback gives a field is the text after the
\* field's label up to the next "/" or line end, trimmed (its part before
\* the first comma for the city).
C11_CaptionSubLines ==
    exPc = "tier3" =>
        LET caption == cleanTextHelper(exRaw.caption)
            t1 == ParseTier1(EmptyMeta, exRaw)
        IN  Truthy(caption) =>
              /\ \A f \in {"photographer", "date"} :
                    (~Truthy(t1[f]) /\ exResult[f] # NULL)
                       => exResult[f] \in LabelledValues(caption, LineLabels(f))
              /\ (~Truthy(t1["city"]) /\ ~Truthy(t1["country"]) /\ exResult["city"] # NULL)
                    => \E v \in LabelledValues(caption, WhereLabels) :
                          exResult["city"] = BeforeFirstComma(v)
              /\ (exRaw.caption = ParisCaption /\ exRaw.labelValues = <<>>)
                    => /\ exResult["city"] = <<"P","a","r","i","s">>
                       /\ exResult["country"] = <<"F","r","a","n","c","e">>
                       /\ exResult["date"] = <<"2","0","2","1","-","0","5","-","0","1">>
                       /\ exResult["photographer"] = <<"J","."," ","D","o","e">>

(***************************************************************************)
(* Claims about the job record                                             *)
(***************************************************************************)
StatusSteps == { <<"pending", "scraping">>, <<"scraping", "completed">>, <<"scraping", "error">> }

Terminal == {"completed", "error"}

\* C1: a job's status only ever changes pending -> scraping -> completed or
\* pending -> scraping -> error: every step of scrape and its callbacks
\* leaves the stored status as it was or takes one of these three changes.
C1_StatusSteps ==
    [][\A j \in DOMAIN scrapeJobs :
          \/ scrapeJobs'[j].status = scrapeJobs[j].status
          \/ <<scrapeJobs[j].status, scrapeJobs'[j].status>> \in StatusSteps]_vars

\* C2: once a job's status is completed or error, no later step of scrape
\* changes its status, progress, counters, records, error message or
\* completedAt.
C2_TerminalImmutable ==
    [][\A j \in DOMAIN scrapeJobs :
          scrapeJobs[j].status \in Terminal => scrapeJobs'[j] = scrapeJobs[j]]_vars

\* C3: while a job's status is scraping, every update of its progress stores
\* a value greater than or equal to the value stored before it, across
\* discovery and extraction.
C3_ProgressMonotone ==
    [][\A j \in DOMAIN scrapeJobs :
          (scrapeJobs[j].status = "scraping" /\ scrapeJobs'[j].status = "scraping")
             => scrapeJobs'[j].progress >= scrapeJobs[j].progress]_vars

\* C4: a job's stored progress is between 0 and 100 inclusive after every
\* update, for every observed image count and configured maxImages.
C4_ProgressInRange ==
    \A j \in DOMAIN scrapeJobs : scrapeJobs[j].progress \in 0..100

(***************************************************************************)
(* Claims about discovery                                                  *)
(***************************************************************************)
\* the positions of scrape after which discovery is over
AfterDiscovery == {"item", "catch", "rejected"}

\* C5: the discovery loop terminates for every behaviour of the listing
\* page: a discovery run that keeps taking steps eventually leaves autoScroll
\* and finishes the final sweep (or the job fails).
C5_DiscoveryTerminates == <>(loc["j1"].pc \in AfterDiscovery)

NoDuplicateIds(links) ==
    \A m, n \in 1..Len(links) : links[m].imageId = links[n].imageId => m = n

\* C6: the reference set built by a discovery run (initial sweep,
\* per-pagination sweeps and final sweep merged), and the capped list taken
\* from it, never contain two references with the same imageId.
C6_NoDuplicateIds ==
    \A j \in AllJobs :
        NoDuplicateIds(loc[j].discoveredLinks) /\ NoDuplicateIds(loc[j].limitedLinks)

\* discovery is over with two references, the first one an item that an
\* embed of one sweep and a container of a later sweep both gave
C6_Witness ==
    /\ loc["j1"].pc = "item"
    /\ loc["j1"].discoveredLinks = << ItemRef("h1", "i1"), ItemRef("h1", "i2") >>


(***************************************************************************)
(* Claims about whole jobs                                                 *)
(***************************************************************************)
\* a record with its id and url and nothing else
BareRecord(image) ==
    /\ image["imageId"] \in ImageIds
    /\ image["url"] = ItemUrl(image["hash"], image["imageId"])
    /\ \A f \in Fields \cup {"thumbnailUrl"} : image[f] = NULL

\* C12: a job with maxImages = 2 and extractDetails = true on a listing with
\* five discoverable items whose detail pages always answer 404 (no payload
\* intercepted) ends completed with exactly 2 records, each with its id and
\* url and every other field null.
C12_NotFoundScenario ==
    \A j \in DOMAIN scrapeJobs :
        (/\ scrapeJobs[j].status = "completed"
         /\ \A id \in ImageIds : metadataCache[id] = NoEntry)
           => /\ Len(scrapeJobs[j].images) = 2
              /\ \A n \in 1..Len(scrapeJobs[j].images) : BareRecord(scrapeJobs[j].images[n])

\* C14: the listing navigation is attempted at most 3 times and stops at
\* the first success; the wait before attempt k+1 is the base delay times k;
\* when all 3 attempts fail the job's status becomes error with the
\* navigation error's message, and no discovery or extraction step runs.
C14_ListingNavigation ==
    [][\A j \in DOMAIN scrapeJobs :
          LET l == loc[j]
              m == loc'[j]
          IN  /\ l.pc = "goto" => l.attempts < maxAttempts
              /\ (l.pc = "goto" /\ m.pc = "goto" /\ m # l)
                    => m.attempts = l.attempts + 1 /\ m.backoff = BaseDelay * m.attempts
              /\ (l.pc = "goto" /\ m.pc = "catch")
                    => m.attempts = maxAttempts /\ m.error = "navigation"
              /\ (l.pc = "goto" /\ m.pc \notin {"goto", "catch"}) => m.pc = "collectInitial"
              /\ l.error = "navigation"
                    => /\ m.pc \in {"catch", "finallyThrow", "rejected"}
                       /\ m.discoveredLinks = <<>> /\ m.images = <<>>
                       /\ scrapeJobs'[j].images = <<>>
              /\ (l.pc = "catch" /\ l.error = "navigation")
                    => /\ scrapeJobs'[j].status = "error"
                       /\ scrapeJobs'[j].error = "navigation"]_vars

\* the third attempt failed after waits of 2000 and 4000 ms, and the job is
\* in error with the navigation error's message
C14_Witness ==
    /\ scrapeJobs # <<>>
    /\ scrapeJobs["j1"].status = "error"
    /\ scrapeJobs["j1"].error = "navigation"
    /\ loc["j1"].attempts = maxAttempts
    /\ loc["j1"].backoff = 4000

\* the positions of scrape inside the item loop
ItemPcs == {"item", "itemGoto", "itemEvaluate"}

\* C16: an exception raised while processing one item of the extraction
\* loop is caught inside the loop: the step that ends the item appends the
\* record of limitedLinks[i], moves to the next reference and leaves the job
\* scraping; the loop is left only for the completion update, after the
\* last reference, never for the catch block of scrape.
C16_ItemFailuresContained ==
    [][\A j \in DOMAIN scrapeJobs :
          LET l == loc[j]
              m == loc'[j]
          IN  (l.pc \in ItemPcs /\ m # l)
                 => /\ m.pc \in ItemPcs \cup {"onComplete"}
                    /\ m.limitedLinks = l.limitedLinks
                    /\ m.i \in {l.i, l.i + 1}
                    /\ m.i = l.i + 1
                          => /\ Len(m.images) = m.i
                             /\ m.images[m.i]["imageId"] = l.limitedLinks[m.i].imageId
                             /\ scrapeJobs'[j].status = "scraping"
                    /\ m.pc = "onComplete"
                          => /\ l.i = Len(l.limitedLinks)
                             /\ scrapeJobs'[j].status = "completed"]_vars

\* the first of two items ended in a catch block, its record was kept, and
\* the second reference is in extraction with the job still scraping
C16_Witness ==
    /\ loc["j1"].pc = "itemEvaluate"
    /\ loc["j1"].caught
    /\ loc["j1"].i = 1
    /\ Len(loc["j1"].limitedLinks) = 2
    /\ Len(scrapeJobs["j1"].images) = 1
    /\ scrapeJobs["j1"].status = "scraping"

\* C17: every run of scrape leaves its job in status completed or error
\* when it ends, whatever failed, the launch of the browser and the opening
\* of the tab included: no job is pending or scraping after its run ended.
C17_EndedRunsAreTerminal ==
    \A j \in DOMAIN scrapeJobs :
        loc[j].pc \in {"resolved", "rejected"} => scrapeJobs[j].status \in Terminal

\* C18: whenever a job's status is completed, its progress is 100 and its
\* completedAt timestamp is not null, also for a job whose capped reference
\* list was empty.
C18_CompletedMeansDone ==
    \A j \in DOMAIN scrapeJobs :
        scrapeJobs[j].status = "completed"
           => scrapeJobs[j].progress = 100 /\ scrapeJobs[j].completedAt # "null"

\* a job completed without any reference to process
C18_Witness ==
    /\ scrapeJobs["j1"].status = "completed"
    /\ loc["j1"].limitedLinks = <<>>
    /\ scrapeJobs["j1"].images = <<>>
    /\ scrapeJobs["j1"].progress = 100

\* the imageIds of a list of references, in the list's order
IdsOf(links) == [n \in 1..Len(links) |-> links[n].imageId]

\* short is the beginning of long
IsPrefix(short, long) ==
    Len(short) <= Len(long) /\ \A n \in 1..Len(short) : short[n] = long[n]

\* C19: a merge never moves an imageId already in the merged set, so the set
\* stays in order of first discovery; the list extraction processes is the
\* first maxImages entries of the merged set, the whole set when maxImages
\* is 0; a completed job with maxImages > 0 holds at most maxImages records.
C19_CapKeepsDiscoveryOrder ==
    /\ [][\A j \in DOMAIN scrapeJobs :
             loc'[j].pc \notin {"resolved", "rejected", "idle"}
                => IsPrefix(IdsOf(loc[j].discoveredLinks), IdsOf(loc'[j].discoveredLinks))]_vars
    /\ [](\A j \in DOMAIN scrapeJobs :
             LET l == loc[j]
                 cap == l.config.maxImages
             IN  /\ l.pc \in ItemPcs \cup {"onComplete"}
                       => /\ IsPrefix(l.limitedLinks, l.discoveredLinks)
                          /\ Len(l.limitedLinks) =
                                IF cap = 0 \/ Len(l.discoveredLinks) < cap
                                THEN Len(l.discoveredLinks) ELSE cap
                          /\ IsPrefix(IdsOf(l.images), IdsOf(l.limitedLinks))
                 /\ (scrapeJobs[j].status = "completed" /\ scrapeJobs[j].config.maxImages > 0)
                       => Len(scrapeJobs[j].images) <= scrapeJobs[j].config.maxImages)

\* a completed job capped at one item: the merged set holds i2 of the first
\* sweep before i1 of the final sweep, and the only record is that of i2
C19_Witness ==
    /\ scrapeJobs["j1"].status = "completed"
    /\ scrapeJobs["j1"].config.maxImages = 1
    /\ IdsOf(loc["j1"].discoveredLinks) = <<"i2", "i1">>
    /\ loc["j1"].discoveredLinks[2].hash = "h2"
    /\ Len(scrapeJobs["j1"].images) = 1
    /\ scrapeJobs["j1"].images[1]["imageId"] = "i2"

\* C20: with two jobs running concurrently, every step is a step of one
\* scrape call, and it leaves the tab and the job record of the other job
\* as they were; a step of no scrape call changes no tab and no record.
C20_JobsAreIsolated ==
    [][/\ \A j \in AllJobs :
             loc'[j] # loc[j]
                => \A k \in AllJobs \ {j} :
                      /\ loc'[k] = loc[k]
                      /\ tabs'[k] = tabs[k]
                      /\ scrapeJobs'[k] = scrapeJobs[k]
       /\ loc' = loc => (tabs' = tabs /\ scrapeJobs' = scrapeJobs)]_vars

\* both jobs are scraping in their own tabs: j1 has clicked its way to
\* another page and reported progress while j2 still shows the listing
C20_Witness ==
    /\ scrapeJobs["j1"].status = "scraping"
    /\ scrapeJobs["j2"].status = "scraping"
    /\ tabs["j1"] = OpenTab("u2")
    /\ tabs["j2"] = OpenTab(FiveItemListing)
    /\ loc["j1"].justClickedPagination
    /\ loc["j2"].pc = "collectFinal"
    /\ scrapeJobs["j1"].progress > scrapeJobs["j2"].progress

\* C21: the network cache is process-wide and keyed by imageId only: the
\* record a job stores for an item carries the photographer of the payload
\* the cache holds for that imageId when the item begins, whichever job's tab
\* intercepted that payload.
C21_CacheKeyedByImageIdOnly ==
    [][\A j \in AllJobs :
          LET l == loc[j]
              n == l.i + 1
          IN  (l.pc = "item" /\ loc'[j].i = n /\ ~l.config.extractDetails)
                 => LET entry == metadataCache[l.limitedLinks[n].imageId]
                        record == scrapeJobs'[j].images[n]
                    IN  /\ record["imageId"] = l.limitedLinks[n].imageId
                        /\ entry.has => record["photographer"] = entry["photographer"]
                        /\ ~entry.has => record["photographer"] = NULL]_vars

\* the record of i1 in job j1 names the photographer of a payload that only
\* the tab of job j2 receives, and j2 has stored no record of its own yet
C21_Witness ==
    /\ Len(scrapeJobs["j1"].images) >= 1
    /\ scrapeJobs["j1"].images[1]["imageId"] = "i1"
    /\ scrapeJobs["j1"].images[1]["photographer"] = <<"B">>
    /\ scrapeJobs["j2"].images = <<>>
    /\ scrapeJobs["j2"].url # scrapeJobs["j1"].url

\* the fields of a job record that the orchestrator's updates may set
UpdatedFields ==
    {"status", "progress", "scrapedImages", "totalImages", "images", "error", "completedAt"}

\* C22: every step leaves each job record with the same fields, and changes
\* only fields among status, progress, scrapedImages, totalImages, images,
\* error and completedAt: id, url, config and startedAt keep the values they
\* were created with.
C22_OnlyProgressFieldsChange ==
    [][\A j \in DOMAIN scrapeJobs :
          /\ j \in DOMAIN scrapeJobs'
          /\ DOMAIN scrapeJobs'[j] = DOMAIN scrapeJobs[j]
          /\ scrapeJobs'[j].id = scrapeJobs[j].id
          /\ scrapeJobs'[j].url = scrapeJobs[j].url
          /\ scrapeJobs'[j].config = scrapeJobs[j].config
          /\ scrapeJobs'[j].startedAt = scrapeJobs[j].startedAt
          /\ DOMAIN scrapeJobs[j] \ UpdatedFields = {"id", "url", "config", "startedAt"}]_vars

\* a job after its status, progress, item and completion updates, with the
\* id, url, config and start time it was created with
C22_Witness ==
    /\ scrapeJobs["j2"].status = "completed"
    /\ scrapeJobs["j2"].scrapedImages = 1
    /\ scrapeJobs["j2"].totalImages = 1
    /\ Len(scrapeJobs["j2"].images) = 1
    /\ scrapeJobs["j2"].completedAt = "t1"
    /\ scrapeJobs["j2"] = [NewJob("j2", FiveItemListing, TwoJobConfigs["j2"]) EXCEPT
                              !.status = "completed", !.progress = 100,
                              !.scrapedImages = 1, !.totalImages = 1,
                              !.images = scrapeJobs["j2"].images, !.completedAt = "t1"]

\* the positions of autoScroll's loop after the head of an iteration
LoopPcs == {"findButton", "click", "scroll", "bottomFind", "bottomClick", "patience"}

C24_RecordedPageStateEndsDiscovery ==
    [][\A j \in DOMAIN scrapeJobs :
          LET l == loc[j]
              m == loc'[j]
          IN  (l.pc = "loopHead" /\ ~l.justClickedPagination /\ m.pc = "findButton")
                 => PageKey(tabs[j].url, m.imageCount) \notin l.visitedPages]_vars

\* C25: a pagination click after which the URL differs from the URL before
\* it is a successful transition: the sweep of the page is merged and the
\* next scanning iteration starts without a bottom scroll; a click that did
\* not succeed, or raised, is followed by the bottom scroll.
C25_ClickOutcome ==
    [][\A j \in DOMAIN scrapeJobs :
          LET l == loc[j]
              m == loc'[j]
          IN  (l.pc \in {"click", "bottomClick"} /\ m # l)
                 => /\ tabs'[j].url # tabs[j].url => m.pc = "loopHead"
                    /\ m.pc # "loopHead" => m.pc = "scroll"]_vars

\* C26: with a positive cap, a step from the head of the discovery loop does
\* not go on to scan once the number of discovered references has reached
\* the cap, and leaves the loop on account of the cap only when that number
\* has reached it.
C26_CapCountsReferences ==
    [][\A j \in DOMAIN scrapeJobs :
          LET l == loc[j]
              m == loc'[j]
              maxImages == l.config.maxImages
          IN  (l.pc = "loopHead" /\ maxImages > 0 /\ m # l)
                 => /\ Len(l.discoveredLinks) >= maxImages => m.pc = "collectFinal"
                    /\ (m.pc = "collectFinal" /\ ~(l.imageCount < maxImages))
                          => Len(l.discoveredLinks) >= maxImages]_vars

\* C27: when discovery has returned, every item that was in the document at
\* some scanning iteration of the run is in the set of discovered references.
C27_VisibleItemsAreReturned ==
    \A j \in DOMAIN scrapeJobs :
        loc[j].pc = "item" => loc[j].visible \subseteq LinkIds(loc[j].discoveredLinks)

\* C28: the element discovery is about to click is one that passed the
\* enabled-and-visible check of the lookup, whatever the page changed
\* between the lookup's queries.
C28_ClicksTheCheckedControl ==
    \A j \in DOMAIN scrapeJobs :
        loc[j].pc \in {"click", "bottomClick"} => loc[j].loadMoreButton = "ok"

\* C29: a reference that is in the discovered set stays as it is: a later
\* sweep changes neither its url nor its hash.
C29_ReferencesAreImmutable ==
    [][\A j \in DOMAIN scrapeJobs :
          loc'[j].pc \notin {"resolved", "rejected", "idle"}
             => IsPrefix(loc[j].discoveredLinks, loc'[j].discoveredLinks)]_vars

\* C30: whatever fails while a tier is processed, every field for which
\* Tier 0, Tier 1 or Tier 2 obtained a value holds that value in the
\* returned record.
C30_EarlierTiersSurviveFailure ==
    (exPc = "returned" /\ exDetails)
       => \A f \in Fields :
              exImage[f] = Or(Tier0Image(exRef, exHint, exCache)[f], exResult[f])

\* C31: when detail navigation fails on every attempt, the record returned
\* for the item keeps every Tier 0 value and the thumbnail hint, every field
\* Tier 0 did not supply is null, and the call returns instead of throwing,
\* so the item loop goes on: the record is the bare record of the reference
\* with the hint and with the cached values of the seven fields, nothing else.
C31_FailedNavigationKeepsTier0 ==
    exPc = "returnedPartial"
       => /\ exDetails
          /\ exAttempt = DetailAttempts
          /\ ~exCaught
          /\ exImage["thumbnailUrl"] = Or(exHint, NULL)
          /\ \A k \in {"imageId", "smartframeId"} : exImage[k] = exRef.imageId
          /\ \A k \in {"url", "copyLink"} : exImage[k] = exRef.url
          /\ exImage["hash"] = exRef.hash
          /\ \A f \in Fields :
                exImage[f] = IF exCache.has THEN MapCached(exCache)[f] ELSE NULL

\* every attempt failed for an item with a hint and a cached photographer:
\* the record has both, and its other fields are null
C31_Witness ==
    /\ exPc = "returnedPartial"
    /\ exAttempt = DetailAttempts
    /\ exHint = <<"thumb">>
    /\ exImage["thumbnailUrl"] = <<"thumb">>
    /\ exImage["photographer"] = <<"A">>
    /\ \A f \in Fields \ {"photographer"} : exImage[f] = NULL

\* C32: records are appended to the job one item at a time in the order of
\* the capped reference list: a job has at most one item in extraction, the
\* one after the references already processed; every step leaves the records
\* as they were or appends one record, that of the item in extraction; and
\* at every point the job's records are, in order, the records of the first
\* i references, in the loop's list and in the stored job alike.
C32_RecordsFollowTheReferences ==
    /\ [][\A j \in DOMAIN scrapeJobs :
             LET l == loc[j]
                 m == loc'[j]
             IN  /\ m.images # l.images
                       => /\ l.pc \in ItemPcs
                          /\ l.i < Len(l.limitedLinks)
                          /\ m.i = l.i + 1
                          /\ Len(m.images) = Len(l.images) + 1
                          /\ IsPrefix(l.images, m.images)
                          /\ m.images[m.i]["imageId"] = l.limitedLinks[m.i].imageId
                          /\ m.images[m.i]["url"] = l.limitedLinks[m.i].url
                 /\ (l.pc \in {"itemGoto", "itemEvaluate"} /\ m.pc \in {"itemGoto", "itemEvaluate"})
                       => (m.i = l.i /\ m.image["imageId"] = l.image["imageId"])]_vars
    /\ [](\A j \in DOMAIN scrapeJobs :
             LET l == loc[j]
             IN  /\ Len(l.images) = l.i
                 /\ l.i <= Len(l.limitedLinks)
                 /\ \A n \in 1..Len(l.images) :
                       l.images[n]["imageId"] = l.limitedLinks[n].imageId
                 /\ l.pc \in {"itemGoto", "itemEvaluate"}
                       => /\ l.i < Len(l.limitedLinks)
                          /\ l.image["imageId"] = l.limitedLinks[l.i + 1].imageId
                 /\ l.i > 0 => scrapeJobs[j].images = l.images)

\* one reference is processed and its record stored, the other is in
\* extraction after a failed navigation attempt; the list is in discovery
\* order, which is not the order of the ids
C32_Witness ==
    /\ loc["j1"].pc = "itemGoto"
    /\ loc["j1"].navAttempt = DetailAttempts
    /\ loc["j1"].i = 1
    /\ IdsOf(loc["j1"].limitedLinks) = <<"i2", "i1">>
    /\ IdsOf(scrapeJobs["j1"].images) = <<"i2">>
    /\ loc["j1"].image["imageId"] = "i1"

\* the text after the first comma of v, trimmed
AfterFirstComma(v) ==
    LET c == IndexOfAny(v, {","}, 1)
    IN  trim(SubSeq(v, c + 1, Len(v)))

\* C33: the caption's location line is split on its first comma only: when
\* no earlier tier supplied city or country and the sanitized location has a
\* comma, city is the text before the first comma and country is all the
\* text after it, also when the location has more than one comma.
C33_SplitOnFirstCommaOnly ==
    exPc = "tier3" =>
        LET caption    == cleanTextHelper(exRaw.caption)
            t1         == ParseTier1(EmptyMeta, exRaw)
            whereMatch == IF Truthy(caption) THEN CaptionMatch(caption, WhereLabels)
                          ELSE NULL
            location   == cleanTextHelper(whereMatch)
        IN  (/\ ~Truthy(t1["city"])
             /\ ~Truthy(t1["country"])
             /\ whereMatch # NULL
             /\ Truthy(location)
             /\ includes(location, <<",">>))
               => /\ exResult["city"] = cleanTextHelper(BeforeFirstComma(location))
                  /\ exResult["country"] = cleanTextHelper(AfterFirstComma(location))

\* C34: when neither the cache nor the label-value pairs supplied
\* matchEvent and the sanitized caption has a "Featuring:" line, the caption
\* fallback sets matchEvent to the sanitized text captured from that line.
C34_FeaturingLineFillsMatchEvent ==
    exPc = "tier3" =>
        LET caption        == cleanTextHelper(exRaw.caption)
            labelled       == LabelLoop(EmptyMeta, exRaw.labelValues, 1)
            featuringMatch == IF Truthy(caption)
                              THEN CaptionMatch(caption, FeaturingLabels)
                              ELSE NULL
        IN  (/\ ~Truthy(exImage["matchEvent"])
             /\ ~Truthy(labelled["matchEvent"])
             /\ featuringMatch # NULL)
               => exResult["matchEvent"] = cleanTextHelper(featuringMatch)

\* C35: when extractDetails is false, extract performs no navigation and
\* runs none of Tiers 1-3: the job is never at a detail navigation or a page
\* evaluation, the step that processes a reference leaves the tab where it
\* is, and the record it appends is the bare record of the reference with
\* the thumbnail hint and the values cached for the item at that moment.
C35_NoDetailsNoNavigation ==
    /\ [](\A j \in DOMAIN scrapeJobs :
             ~scrapeJobs[j].config.extractDetails
                => loc[j].pc \notin {"itemGoto", "itemEvaluate"})
    /\ [][\A j \in DOMAIN scrapeJobs :
             LET l == loc[j]
                 m == loc'[j]
             IN  (~scrapeJobs[j].config.extractDetails /\ l.pc = "item" /\ m.i = l.i + 1)
                    => LET ref    == l.limitedLinks[m.i]
                           entry  == metadataCache[ref.imageId]
                           record == scrapeJobs'[j].images[m.i]
                       IN  /\ tabs' = tabs
                           /\ m.pc = "item"
                           /\ record["imageId"] = ref.imageId
                           /\ record["url"] = ref.url
                           /\ record["thumbnailUrl"] = Or(l.thumbnails[ref.imageId], NULL)
                           /\ \A f \in Fields :
                                 record[f] = IF entry.has THEN MapCached(entry)[f]
                                             ELSE NULL]_vars

\* a job without detail extraction has stored the record of its first
\* reference, with the cached photographer and the thumbnail, and its tab
\* is still on the listing
C35_Witness ==
    /\ ~scrapeJobs["j1"].config.extractDetails
    /\ loc["j1"].pc = "item"
    /\ loc["j1"].i = 1
    /\ tabs["j1"] = OpenTab(ListingUrl)
    /\ scrapeJobs["j1"].images[1]["imageId"] = "i1"
    /\ scrapeJobs["j1"].images[1]["photographer"] = <<"A">>
    /\ scrapeJobs["j1"].images[1]["thumbnailUrl"] = <<"thumb">>
    /\ scrapeJobs["j1"].images[1]["date"] = NULL

\* C36: no value the sanitizer accepts contains script, iframe, onclick,
\* onerror or onload (in any letter case) or a blocklisted UI phrase, also
\* when the keyword only appears once the tags and angle brackets of the raw
\* input are stripped.
C36_AcceptedValuesHoldNoKeyword ==
    (cleanOut # PENDING /\ cleanOut # NULL) => ~HasRejectedWord(cleanOut)

\* C37: every non-null result of the sanitizer is non-empty, has no leading
\* and no trailing whitespace, contains no "<" and no ">", has at most 200
\* characters and spans at most 3 lines.
C37_AcceptedValuesAreClean ==
    (cleanOut # PENDING /\ cleanOut # NULL)
       => /\ Len(cleanOut) >= 1
          /\ cleanOut[1] \notin WhiteSpace
          /\ cleanOut[Len(cleanOut)] \notin WhiteSpace
          /\ \A n \in 1..Len(cleanOut) : cleanOut[n] \notin {"<", ">"}
          /\ Len(cleanOut) <= 200
          /\ Cardinality({n \in 1..Len(cleanOut) : cleanOut[n] = "\n"}) + 1 <= 3

\* " Jane Doe<" was accepted as "Jane Doe": the bracket and the leading
\* blank are gone
C37_Witness ==
    /\ cleanIn = <<" ","J","a","n","e"," ","D","o","e","<">>
    /\ cleanOut = <<"J","a","n","e"," ","D","o","e">>

\* C38: extract reads the network cache for an item once, before it
\* navigates to the item's detail page: the image is built from the cache as
\* it is when the item begins; a payload stored while the detail page loads
\* or is evaluated leaves the image and the job's records as they are; no
\* step of the navigation or the evaluation reads the cache again, so the
\* record appended for the item names the late payload's photographer only
\* if the image already did when the item began.
C38_CacheReadOnceBeforeNavigation ==
    [][\A j \in DOMAIN scrapeJobs :
          LET l == loc[j]
              m == loc'[j]
          IN  /\ (l.pc = "item" /\ m.pc = "itemGoto")
                    => LET ref   == l.limitedLinks[l.i + 1]
                           entry == metadataCache[ref.imageId]
                       IN  /\ metadataCache' = metadataCache
                           /\ \A f \in Fields :
                                 m.image[f] = IF entry.has THEN MapCached(entry)[f]
                                              ELSE NULL
              /\ (l.pc \in {"itemGoto", "itemEvaluate"} /\ metadataCache' # metadataCache)
                    => (m = l /\ scrapeJobs' = scrapeJobs)
              /\ (l.pc \in {"itemGoto", "itemEvaluate"} /\ m.pc \in {"itemGoto", "itemEvaluate"})
                    => m.image = l.image
              /\ (l.pc \in {"itemGoto", "itemEvaluate"} /\ m.pc = "item")
                    => LET record == scrapeJobs'[j].images[m.i]
                       IN  /\ record["imageId"] = l.image["imageId"]
                           /\ \A f \in Fields :
                                 /\ Truthy(l.image[f]) => record[f] = l.image[f]
                                 /\ record[f] = <<"L">> => l.image[f] = <<"L">>]_vars

\* a payload for the first item was stored while its detail page was
\* loading; the record of the item does not have the payload's photographer
C38_Witness ==
    /\ loc["j1"].pc = "item"
    /\ loc["j1"].i = 1
    /\ scrapeJobs["j1"].images[1]["imageId"] = "i1"
    /\ metadataCache["i1"] = LateCacheEntry
    /\ scrapeJobs["j1"].images[1]["photographer"] # <<"L">>

\* C39: however many jobs start concurrently, the process launches at most
\* one browser instance, and every job's tab is opened in that one
\* instance: the tab is opened in the instance this.browser holds at the
\* call of newPage, which is the first and only instance launched.
C39_OneBrowserInstance ==
    /\ [](launched <= 1)
    /\ [][\A j \in DOMAIN scrapeJobs :
             (~tabs[j].open /\ tabs'[j].open) => (browser = 1 /\ launched = 1)]_vars

\* C40: every run of scrape that opened a tab closes that tab before it
\* returns or throws, whether the job completes, fails the listing
\* navigation, fails during discovery or fails in its catch block: no
\* settled scrape call has an open tab, and the step that settles a call
\* whose tab is open is the one that closes it.
C40_TabClosedBeforeScrapeSettles ==
    /\ [](\A j \in AllJobs : loc[j].pc \in {"resolved", "rejected"} => ~tabs[j].open)
    /\ [][\A j \in AllJobs :
             (tabs[j].open /\ loc'[j].pc \in {"resolved", "rejected"})
                => (loc[j].pc \in {"finallyReturn", "finallyThrow"} /\ ~tabs'[j].open)]_vars

\* the listing navigation failed on every attempt: the job is in error, the
\* call has thrown, and the tab it had opened is closed
C40_Witness ==
    /\ loc["j1"].pc = "rejected"
    /\ loc["j1"].attempts = maxAttempts
    /\ scrapeJobs["j1"].status = "error"
    /\ scrapeJobs["j1"].error = "navigation"
    /\ ~tabs["j1"].open

=============================================================================
